---- MODULE Spec2Model ----
(***************************************************************************)
(* Model of the synthetic stealer-log generators (Atomic, Lumma, RedLine,  *)
(* StealC, Vidar).  Each generator is a separate script with the same      *)
(* shape: load JSON configuration, seed Python's global `random` from a    *)
(* hash of the persona id and a purpose tag, draw values from the          *)
(* configured pools, and write the log.                                    *)
(*                                                                         *)
(* The model keeps                                                         *)
(*   - the loaded configuration tree (ConfigurationManager.configs),       *)
(*   - the state of the process-wide generator of module `random`,         *)
(*   - the content produced by the most recent generate_*_log call,        *)
(* and has one action per generate_*_log handler plus the start of a new   *)
(* process.  ConfigurationManager.get is a pure function and is checked    *)
(* under its own specification, SpecGet.                                   *)
(***************************************************************************)
EXTENDS Integers, Sequences, FiniteSets, TLC

VARIABLES
    family,     \* which of the five scripts this process runs
    configs,    \* ConfigurationManager.configs: domain name -> JSON tree
    rng,        \* state of the global generator of module random
    last,       \* content produced by the latest generate_*_log call
    ref,        \* content of one earlier generate_*_log call, kept for comparison
    query,      \* arguments of the latest ConfigurationManager.get call
    answer      \* its outcome

vars == <<family, configs, rng, last, ref, query, answer>>

(***************************************************************************)
(* Bounds of the model.                                                    *)
(***************************************************************************)
\* width of one output word of the generator (32 in CPython)
WordBits == 6
\* number of distinct states a fresh process can start its generator in
EntropySeeds == 2

(***************************************************************************)
(* Small helpers.                                                          *)
(***************************************************************************)
RECURSIVE Pow2(_)
Pow2(n) == IF n = 0 THEN 1 ELSE 2 * Pow2(n - 1)

RECURSIVE BitLength(_)
BitLength(n) == IF n = 0 THEN 0 ELSE 1 + BitLength(n \div 2)

Min(a, b) == IF a <= b THEN a ELSE b

WordMod == Pow2(WordBits)

\* characters that occur in persona ids and purpose tags
Alphabet ==
    << "_", " ", "0", "1", "2", "3", "4", "5", "6", "7", "8", "9",
       "a", "b", "c", "d", "e", "f", "g", "h", "i", "j", "k", "l", "m",
       "n", "o", "p", "q", "r", "s", "t", "u", "v", "w", "x", "y", "z",
       "C", "D", "E", "F", "P", "G", "I", "." >>

Ord(c) == CHOOSE i \in 1..Len(Alphabet) : Alphabet[i] = c

(***************************************************************************)
(* hashlib.md5(seed_string).hexdigest()[:8] read as a base-16 integer: a   *)
(* fixed function from byte strings to integers.  The model folds the      *)
(* characters into a number below SeedMod, h -> 33 * h + Ord(c) for each   *)
(* character c in turn, starting from 5381.                                *)
(***************************************************************************)
SeedMod == Pow2(2 * WordBits)

\* the fold over characters lo..hi of s, as the map h -> a * h + b it applies
\* (computed by halves)
RECURSIVE Md5Fold(_, _, _)
Md5Fold(s, lo, hi) ==
    IF lo > hi THEN [a |-> 1, b |-> 0]
    ELSE IF lo = hi THEN [a |-> 33 % SeedMod, b |-> Ord(s[lo]) % SeedMod]
    ELSE LET left == Md5Fold(s, lo, (lo + hi) \div 2)
             right == Md5Fold(s, (lo + hi) \div 2 + 1, hi)
         IN [a |-> (left.a * right.a) % SeedMod,
             b |-> (left.b * right.a + right.b) % SeedMod]

Md5Prefix(s) ==
    LET fold == Md5Fold(s, 1, Len(s))
    IN (fold.a * (5381 % SeedMod) + fold.b) % SeedMod

\* BaseGenerator.get_persona_seed: f"{persona_id}_{suffix}"
get_persona_seed(persona_id, suffix) == Md5Prefix(persona_id \o <<"_">> \o suffix)

\* VidarLogGenerator.get_persona_seed: f"{persona_id}{suffix}"
vidar_get_persona_seed(persona_id, suffix) == Md5Prefix(persona_id \o suffix)

(***************************************************************************)
(* Module random.  A generator state is the seed it was initialised from   *)
(* and the number of words drawn since.  Every primitive returns the value *)
(* drawn and the state after the draw: [v |-> value, st |-> state].        *)
(***************************************************************************)
\* random.seed(a) for an integer a
Seeded(a) == [seed |-> a % SeedMod, pos |-> 0]

\* the pos-th output word of the generator seeded with seed: for each seed a
\* permutation of 0..WordMod-1 (odd linear and even quadratic coefficient)
Word(st) ==
    LET stride == 2 * ((st.seed \div 8) % (WordMod \div 2)) + 1
        start  == (st.seed * 37 + (st.seed \div WordMod) * 11 + 5) % WordMod
        bend   == 2 * ((st.seed \div 2) % 2)
    IN (start + st.pos * stride + bend * st.pos * st.pos) % WordMod

Advance(st) == [st EXCEPT !.pos = @ + 1]

\* getrandbits(k): the k high bits of the next word, or for k > WordBits
\* whole words, least significant first, and the high bits of a last one
RECURSIVE GetRandBits(_, _)
GetRandBits(st, k) ==
    IF k <= WordBits
    THEN [v |-> Word(st) \div Pow2(WordBits - k), st |-> Advance(st)]
    ELSE [GetRandBits(Advance(st), k - WordBits) EXCEPT !.v = Word(st) + WordMod * @]

\* Random._randbelow_with_getrandbits(n), n >= 1: rejection sampling
RECURSIVE RandBelow(_, _)
RandBelow(st, n) ==
    LET Accepted(r) == IF r.v < n THEN r ELSE RandBelow(r.st, n)
    IN Accepted(GetRandBits(st, BitLength(n)))

\* random.random(): a fraction v / RandomDen built from two words
RandomDen == WordMod * WordMod

Random(st) ==
    [v |-> Word(st) * WordMod + Word(Advance(st)), st |-> Advance(Advance(st))]

\* random.seed(random.random()): reseeds from the generator's own next value
SeedFromRandom(st) == Seeded(Random(st).v)

\* random.randint(a, b), a <= b
RandInt(st, a, b) == [RandBelow(st, b - a + 1) EXCEPT !.v = a + @]

\* random.choice(seq), seq not empty
Choice(st, seq) == [RandBelow(st, Len(seq)) EXCEPT !.v = seq[@ + 1]]

\* random.choices(population, k=k): k times population[floor(random() * n)];
\* each random() takes two words, so the i-th is drawn 2 * (i - 1) words on
Choices(st, population, k) ==
    LET At(i) == Random([st EXCEPT !.pos = @ + 2 * (i - 1)])
    IN [v |-> [i \in 1..k |-> population[(At(i).v * Len(population)) \div RandomDen + 1]],
        st |-> IF k <= 0 THEN st ELSE At(k).st]

RECURSIVE SumTo(_, _)
SumTo(weights, i) == IF i = 0 THEN 0 ELSE weights[i] + SumTo(weights, i - 1)

\* random.choices(population, weights=weights)[0]: bisect of random() * total
\* in the cumulative weights, capped at the last index
WeightedChoice(st, population, weights) ==
    LET n == Len(population)
        Hit(x) == {i \in 1..n : SumTo(weights, i) * RandomDen > x * SumTo(weights, n)}
        Index(hit) == IF hit = {} THEN n
                      ELSE Min(n, CHOOSE i \in hit : \A j \in hit : i <= j)
    IN [Random(st) EXCEPT !.v = population[Index(Hit(@))]]

\* outcome of a call that raised ValueError
ValueError == "ValueError"

\* random.sample(population, k) for the pool sizes met here (n <= 21): k draws
\* from a shrinking pool; ValueError when k is negative or exceeds n
RECURSIVE SamplePool(_, _, _, _)
SamplePool(st, pool, n, k) ==
    IF k = 0 THEN [v |-> << >>, st |-> st]
    ELSE LET Taken(r) ==
                 [SamplePool(r.st, [pool EXCEPT ![r.v + 1] = pool[n]], n - 1, k - 1)
                     EXCEPT !.v = <<pool[r.v + 1]>> \o @]
         IN Taken(RandBelow(st, n))

Sample(st, population, k) ==
    IF k < 0 \/ k > Len(population)
    THEN [v |-> << >>, st |-> st, raised |-> ValueError]
    ELSE SamplePool(st, population, Len(population), k) @@ [raised |-> ""]

\* random.randint(a, b) as the code calls it: randrange raises ValueError
\* ("empty range") when a > b
RandIntChecked(st, a, b) ==
    IF a > b THEN [v |-> 0, st |-> st, raised |-> ValueError]
    ELSE RandInt(st, a, b) @@ [raised |-> ""]

\* a call random.seed(a) that is left out: the draws continue from st
SeedSkipped(st, a) == st

\* the call random.seed(a): the state before the call is discarded
Seed(st, a) == Seeded(a)

(***************************************************************************)
(* JSON values held by ConfigurationManager.configs, and Python's None.    *)
(***************************************************************************)
None == [t |-> "none"]
D(f) == [t |-> "dict", d |-> f]
L(s) == [t |-> "list", l |-> s]
S(x) == [t |-> "str", s |-> x]
N(i) == [t |-> "int", n |-> i]

\* a path segment passed in *keys: a string or an integer
K(x) == [k |-> "str", s |-> x]
I(i) == [k |-> "int", i |-> i]

\* outcome of evaluating the body of get: an exception leaving the try block
Raised == [t |-> "raise"]

IsDict(v) == v.t = "dict"
IsList(v) == v.t = "list"

\* dict.get(key): JSON object keys are strings, so an integer key finds nothing
DictGet(v, key) ==
    IF key.k = "str" /\ key.s \in DOMAIN v.d THEN v.d[key.s] ELSE None

\* self.configs.get(config_name)
ConfigsGet(cfgs, config_name) ==
    IF config_name \in DOMAIN cfgs THEN cfgs[config_name] ELSE None

\* keys.index(key): position of the first segment equal to key
KeysIndex(keys, key) == CHOOSE i \in 1..Len(keys) :
    keys[i] = key /\ \A j \in 1..(i - 1) : keys[j] # key

(***************************************************************************)
(* Atomic: ConfigurationManager.get.  The warning for a missing key joins  *)
(* the path with '.'.join, which raises TypeError on a non-string segment; *)
(* the enclosing try/except turns every exception into the default.        *)
(***************************************************************************)
RECURSIVE AtomicGetWalk(_, _, _, _)
AtomicGetWalk(value, keys, i, default) ==
    IF i > Len(keys) THEN value
    ELSE IF ~IsDict(value) THEN default
    ELSE LET next == DictGet(value, keys[i])
         IN IF next = None
            THEN IF \E j \in 1..KeysIndex(keys, keys[i]) : keys[j].k # "str"
                 THEN Raised
                 ELSE default
            ELSE AtomicGetWalk(next, keys, i + 1, default)

AtomicGetBody(cfgs, config_name, keys, default) ==
    LET value == ConfigsGet(cfgs, config_name)
    IN IF value = None THEN default ELSE AtomicGetWalk(value, keys, 1, default)

\* try: ... except Exception: return default
AtomicGet(cfgs, config_name, keys, default) ==
    LET r == AtomicGetBody(cfgs, config_name, keys, default)
    IN IF r = Raised THEN default ELSE r

(***************************************************************************)
(* Lumma and StealC: ConfigurationManager.get (the two are the same code). *)
(***************************************************************************)
RECURSIVE PlainGetWalk(_, _, _, _)
PlainGetWalk(value, keys, i, default) ==
    IF i > Len(keys) THEN value
    ELSE IF ~IsDict(value) THEN default
    ELSE LET next == DictGet(value, keys[i])
         IN IF next = None THEN default
            ELSE PlainGetWalk(next, keys, i + 1, default)

PlainGetBody(cfgs, config_name, keys, default) ==
    LET value == ConfigsGet(cfgs, config_name)
    IN IF value = None THEN default ELSE PlainGetWalk(value, keys, 1, default)

PlainGet(cfgs, config_name, keys, default) ==
    LET r == PlainGetBody(cfgs, config_name, keys, default)
    IN IF r = Raised THEN default ELSE r

(***************************************************************************)
(* RedLine: ConfigurationManager.get with value normalisation for the      *)
(* hardware domain and list traversal for integer segments.                *)
(***************************************************************************)
\* str.lower().strip() on the spellings the model uses
LowerStrip(s) ==
    CASE s = "Gaming_Rig" -> "gaming_rig"
      [] s = "Personal_Laptop" -> "personal_laptop"
      [] s = "Office_Desktop" -> "office_desktop"
      [] s = "Laptop " -> "laptop"
      [] s = "High" -> "high"
      [] s = "Medium" -> "medium"
      [] s = "Low" -> "low"
      [] s = "H" -> "h"
      [] OTHER -> s

\* ConfigurationManager._build_value_mappings
value_mappings(value_type) ==
    IF value_type = "device_type"
    THEN [x \in {"personal laptop", "personal_laptop", "personallaptop", "laptop"}
              |-> "Personal_Laptop"]
         @@ [x \in {"gaming rig", "gaming_rig", "gamingrig", "gaming"} |-> "Gaming_Rig"]
         @@ [x \in {"office desktop", "office_desktop", "officedesktop", "desktop",
                    "office"} |-> "Office_Desktop"]
    ELSE [x \in {"low", "l"} |-> "Low"] @@ [x \in {"medium", "m"} |-> "Medium"]
         @@ [x \in {"high", "h"} |-> "High"]

\* ConfigurationManager.normalize_value
normalize_value(value, value_type) ==
    LET normalized == LowerStrip(value)
        mapping == value_mappings(value_type)
    IN IF normalized \in DOMAIN mapping THEN mapping[normalized] ELSE value

\* str(key)
StrOf(key) ==
    IF key.k = "str" THEN key.s
    ELSE CASE key.i = 0 -> "0" [] key.i = 1 -> "1" [] key.i = 2 -> "2" [] OTHER -> "9"

\* `x in v`: TypeError when v is a number or None; no match inside a string or
\* a list of the trees modelled here
Contains(v, x) ==
    IF IsDict(v) THEN (IF x \in DOMAIN v.d THEN "in" ELSE "not in")
    ELSE IF v.t \in {"int", "none"} THEN "TypeError"
    ELSE "not in"

RECURSIVE RedlineGetWalk(_, _, _, _)
RedlineGetWalk(value, keys, i, default) ==
    IF i > Len(keys) THEN value
    ELSE LET key == keys[i]
             next == IF IsDict(value) THEN DictGet(value, key)
                     ELSE IF IsList(value) /\ key.k = "int"
                          THEN IF 0 <= key.i /\ key.i < Len(value.l)
                               THEN value.l[key.i + 1]
                               ELSE None
                          ELSE None
         IN IF next = None THEN default
            ELSE RedlineGetWalk(next, keys, i + 1, default)

RedlineGetBody(cfgs, config_name, keys, default) ==
    LET value == ConfigsGet(cfgs, config_name)
    IN IF value = None THEN default
       ELSE IF config_name = "hardware" /\ Len(keys) >= 2
       THEN LET device_type == normalize_value(StrOf(keys[1]), "device_type")
                income_level == normalize_value(StrOf(keys[2]), "income_level")
                has_device == Contains(value, device_type)
            IN IF has_device = "TypeError" THEN Raised
               ELSE IF has_device = "not in" THEN default
               ELSE LET has_income == Contains(value.d[device_type], income_level)
                    IN IF has_income = "TypeError" THEN Raised
                       ELSE IF has_income = "in"
                       THEN value.d[device_type].d[income_level]
                       ELSE default
       ELSE RedlineGetWalk(value, keys, 1, default)

RedlineGet(cfgs, config_name, keys, default) ==
    LET r == RedlineGetBody(cfgs, config_name, keys, default)
    IN IF r = Raised THEN default ELSE r

\* the ConfigurationManager.get of each script (Vidar has none: it subscripts
\* its configuration directly)
Get(fam, cfgs, config_name, keys, default) ==
    CASE fam = "atomic" -> AtomicGet(cfgs, config_name, keys, default)
      [] fam = "redline" -> RedlineGet(cfgs, config_name, keys, default)
      [] OTHER -> PlainGet(cfgs, config_name, keys, default)

(***************************************************************************)
(* Personas: the rows of the persona CSV that pass the script's filter.    *)
(* Ids and other strings that enter a seed string are character sequences. *)
(***************************************************************************)
Personas ==
    { [persona_id |-> <<"p", "4">>, first_name |-> "Ann", last_name |-> "Lee",
       email_personal |-> "ann@gmail.com", email_work |-> "", country |-> "US",
       city |-> "Austin", state_region |-> "TX", os |-> "Windows 11",
       device_type |-> "Gaming_Rig", income_level |-> "High",
       primary_browser |-> "Chrome", secondary_browser |-> "None",
       password_habits |-> "Reuses_Passwords", persona_archetype |-> "Gamer",
       infection_vector |-> "Cracked_Software", crypto_user |-> "None",
       social_media_user |-> "Heavy", online_shopper |-> "Light",
       business_access |-> "No", financial_value |-> "High",
       antivirus_type |-> "Windows Defender"],
      [persona_id |-> <<"p", "6">>, first_name |-> "Bob", last_name |-> "Ray",
       email_personal |-> "bob@mail.org", email_work |-> "", country |-> "DE",
       city |-> "Bonn", state_region |-> "NW", os |-> "Windows 10",
       device_type |-> "Office_Desktop", income_level |-> "Low",
       primary_browser |-> "Chrome", secondary_browser |-> "Edge",
       password_habits |-> "Strong_Unique", persona_archetype |-> "Student",
       infection_vector |-> "Phishing", crypto_user |-> "Regular",
       social_media_user |-> "Light", online_shopper |-> "Light",
       business_access |-> "No", financial_value |-> "Low",
       antivirus_type |-> "Avast"] }

\* entry of the hardware domain for one device type and income level
HardwareEntry(model, pool) ==
    D(("model" :> S(model)) @@ ("identifier" :> L(pool)) @@ ("chip" :> L(pool))
      @@ ("cores" :> L(<<N(8)>>)) @@ ("memory" :> L(<<S("16 GB")>>))
      @@ ("display" :> S("2560x1600")))

\* a {min, max} range object
Range(a, b) == D(("min" :> N(a)) @@ ("max" :> N(b)))

(***************************************************************************)
(* Atomic: the configuration directory as loaded by _load_all_configs.     *)
(* The parameters are the serial-number length, the number of ranges of    *)
(* the hardware UUID and the number of keychain services.                  *)
(***************************************************************************)
AtomicConfig(serial_number_length, uuid_parts, n_services) ==
    ("main" :> D(
        ("generator_settings" :> D(
            ("min_passwords" :> N(2)) @@ ("max_passwords" :> N(3))
            @@ ("serial_number_length" :> N(serial_number_length))
            @@ ("min_keychain_entries" :> N(2)) @@ ("max_keychain_entries" :> N(3))
            @@ ("min_cookies" :> N(1)) @@ ("max_cookies" :> N(2))
            @@ ("cookie_value_length" :> N(1))
            @@ ("min_google_tokens" :> N(1)) @@ ("max_google_tokens" :> N(1))
            @@ ("token_suffix_length" :> N(1))))
        @@ ("login_types" :> L(<<S("empty"), S("email"), S("username")>>))
        @@ ("login_weights" :> L(<<N(1), N(2), N(1)>>))
        @@ ("cookie_expiration" :> D(("min_days" :> N(30)) @@ ("max_days" :> N(31))))
        @@ ("stealer_info" :> D("name" :> S("Atomic")))))
    @@ ("hardware" :> D(
        ("Gaming_Rig" :> D("High" :> HardwareEntry("Mac Studio", <<S("M2 Max"), S("M2 Ultra")>>)))
        @@ ("Personal_Laptop" :> D("Medium" :> HardwareEntry("MacBook Air", <<S("M1")>>)))))
    @@ ("charsets" :> D(
        ("serial_number" :> S(<<"A", "B", "7">>)) @@ ("cookie_value" :> S(<<"x", "y">>))
        @@ ("token_suffix" :> S(<<"t", "u">>))))
    @@ ("ranges" :> D(
        ("hardware_uuid" :> L([i \in 1..uuid_parts |-> D(("min" :> N(0))
                                 @@ ("max" :> N(15 * i)) @@ ("format" :> N(2)))]))
        @@ ("keychain_dates" :> D(("create" :> Range(30, 31)) @@ ("modify" :> Range(0, 1))))
        @@ ("phone_number" :> D(("area_code" :> Range(200, 201))
              @@ ("prefix" :> Range(200, 200)) @@ ("suffix" :> Range(1000, 1001))))))
    @@ ("network" :> D(
        ("country_ip_ranges" :> D(("US" :> S("73.12.4")) @@ ("default" :> S("10.0.0"))))
        @@ ("macos_versions" :> D("default" :> D(("product" :> S("macOS"))
                @@ ("version" :> S("14.1")) @@ ("build" :> S("23B74")))))))
    @@ ("passwords" :> D(
        ("Reuses_Passwords" :> L(<<S("Secret1!"), S("Secret2!")>>))
        @@ ("Strong_Unique" :> L(<<S("kX9#vT"), S("Qm4$zL")>>))))
    @@ ("websites" :> D(
        ("persona_websites" :> D("Gamer" :> L(<<S("https://steam.example")>>)))
        @@ ("common_websites" :> L(<<S("https://mail.example")>>))
        @@ ("cookie_domains" :> L(<<S(".mail.example"), S(".steam.example")>>))
        @@ ("cookie_names" :> L(<<S("SESSION_ID")>>))))
    @@ ("browsers" :> D("profiles" :> D(
        ("Chrome" :> D(("primary" :> S("Chrome")) @@ ("secondary" :> S("Chrome"))))
        @@ ("Edge" :> D(("primary" :> S("Edge")) @@ ("secondary" :> S("Edge")))))))
    @@ ("keychain" :> D(("services" :> L([i \in 1..n_services |->
        D(("account" :> S("{email_prefix}")) @@ ("print_name" :> S("service"))
          @@ ("service" :> N(i)) @@ ("password_type" :> S("persona")))]))
        @@ ("password_types" :> D("persona" :> D("source" :> S("persona"))))))
    @@ ("autofill" :> D("fields" :> L(<<
        D(("name" :> S("email")) @@ ("type" :> S("persona_field"))
          @@ ("source" :> S("email_personal"))),
        D(("name" :> S("phone")) @@ ("type" :> S("generated"))
          @@ ("generator" :> S("phone")))>>)))
    @@ ("tokens" :> D("google" :> D(("prefix" :> S("ya29.")) @@ ("connector" :> S("-"))
        @@ ("middle_range" :> Range(0, 1)))))

AtomicConfigs ==
    { AtomicConfig(2, 1, 3), AtomicConfig(3, 2, 3), AtomicConfig(2, 1, 1) }

(***************************************************************************)
(* Lumma: the configuration directory.  The parameters are the hardware    *)
(* pool, the record-count range and the list of common sites.              *)
(***************************************************************************)
LummaConfig(pool, count, common_sites) ==
    ("main" :> D(
        ("generator_settings" :> D(
            ("hwid_length" :> N(2)) @@ ("computer_id_length" :> N(1))
            @@ ("max_browser_profiles" :> N(2)) @@ ("google_token_length" :> N(1))))
        @@ ("lumma_campaigns" :> L(<<S("x1--A"), S("x2--B")>>))
        @@ ("buy_headers" :> L(<<L(<<S("# Buy now")>>)>>))
        @@ ("build_dates" :> L(<<S("Jan 01 2024"), S("Feb 02 2024")>>))
        @@ ("execution_paths" :> L(<<S("C:\\Users\\{username}\\Setup.exe")>>))
        @@ ("marketing_messages" :> L(<<L(<<S("a"), S("b"), S("c")>>)>>))
        @@ ("additional_marketing" :> L(<<L(<<S("d")>>)>>))
        @@ ("debug_codes" :> L(<<S("reg"), S("run"), S("fin")>>))
        @@ ("debug_optional_codes" :> L(<<S("opt")>>))
        @@ ("malware_filenames" :> L(<<S("Setup_2024.zip"), S("Installer.zip")>>))))
    @@ ("hardware" :> D(
        ("Gaming_Rig" :> D("High" :> D(("cpu" :> L(pool))
              @@ ("gpu" :> L(<<S("RTX 4080")>>)) @@ ("ram" :> L(<<N(32768)>>))
              @@ ("resolution" :> L(<<S("2560x1440")>>)))))
        @@ ("Personal_Laptop" :> D("Medium" :> D(("cpu" :> L(<<S("Intel Core i5-1135G7")>>))
              @@ ("gpu" :> L(<<S("Iris Xe")>>)) @@ ("ram" :> L(<<N(8192)>>))
              @@ ("resolution" :> L(<<S("1920x1080")>>)))))))
    @@ ("charsets" :> D(
        ("hwid" :> S(<<"A", "B", "7">>)) @@ ("computer_id" :> S(<<"K", "9">>))
        @@ ("password_random" :> S(<<"r", "R">>)) @@ ("google_token" :> S(<<"g", "G">>))
        @@ ("bitcoin" :> S(<<"1", "b">>)) @@ ("auth_token" :> S(<<"t", "T">>))))
    @@ ("network" :> D(
        ("country_ip_ranges" :> D("US" :> S(<<73, 12, 4>>)))
        @@ ("country_timezones" :> D("US" :> S("(UTC-06:00) Central Time")))
        @@ ("country_languages" :> D("US" :> S("English (United States)")))))
    @@ ("ranges" :> D(
        ("password_count" :> D(("browser_storage" :> Range(3, 4)) @@ ("default" :> count)))
        @@ ("autofill_count" :> count) @@ ("cookie_count" :> count)
        @@ ("cookie_expiry_days" :> Range(30, 31))
        @@ ("install_date_days" :> Range(180, 181))))
    @@ ("passwords" :> D(
        ("Reuses_Passwords" :> L(<<S(<<"{first_name}", "{year}", "!">>),
                                   S(<<"{last_name}", "{number}">>)>>))
        @@ ("Strong_Unique" :> L(<<S(<<"{random}">>)>>))))
    @@ ("websites" :> D(
        ("common_sites" :> L(common_sites))
        @@ ("archetype_sites" :> D("Student" :> L(<<S("campus.example")>>)))))
    @@ ("browsers" :> D(
        ("versions" :> D("Chrome" :> L(<<S("130.0.0.0"), S("131.0.0.0")>>)))
        @@ ("cookie_names" :> L(<<S("session_id"), S("auth_token")>>))
        @@ ("auth_token" :> D(("parts" :> N(1)) @@ ("min_length" :> N(1))
              @@ ("max_length" :> N(2))))
        @@ ("search_queries" :> D("base" :> L(<<S("weather")>>)))))

LummaConfigs ==
    { LummaConfig(<<S("Intel Core i7-12700K"), S("AMD Ryzen 5 5600X")>>, Range(2, 3),
                  <<S("mail.example"), S("google.com"), S("shop.example")>>),
      LummaConfig(<<S("Intel Core i7-12700K")>>, Range(2, 2), <<S("mail.example")>>) }

(***************************************************************************)
(* RedLine: the part of the configuration directory that                   *)
(* AdvancedContentGenerator.generate_filegrabber reads.  The parameter is   *)
(* the list of general document names; inclusion_probability, crypto_files *)
(* and business_files are left to the defaults in the code.                *)
(***************************************************************************)
RedlineConfig(general_documents) ==
    ("main" :> D("output_base_dir" :> S("redline_logs")))
    @@ ("filegrabber" :> D(
        ("generic_files" :> L(<<S("passwords.txt"), S("backup.zip")>>))
        @@ ("archetype_files" :> D(
              "Student" :> D(("desktop" :> L(<<S("homework.txt")>>))
                             @@ ("documents" :> L(<<S("thesis.docx")>>)))))
        @@ ("general_user_files" :> D(
              ("desktop" :> L(<<S("notes.txt"), S("todo.txt")>>))
              @@ ("documents" :> L(general_documents))))))

RedlineConfigs ==
    { RedlineConfig(<<S("resume.docx")>>),
      RedlineConfig(<<S("resume.docx"), S("taxes.pdf")>>),
      RedlineConfig(<<S("resume.docx"), S("taxes.pdf"), S("lease.pdf")>>) }

\* the configuration directories a process of each script can load
Configs(fam) ==
    CASE fam = "atomic" -> AtomicConfigs
      [] fam = "lumma" -> LummaConfigs
      [] fam = "redline" -> RedlineConfigs
      [] OTHER -> AtomicConfigs

(***************************************************************************)
(* ConfigurationManager.get as a function of its arguments: Init draws the *)
(* script, the loaded configuration and the arguments, GetCall applies get.*)
(***************************************************************************)
\* longest key path of a call
MaxPathLen == 3

QueryDomains == {"main", "hardware", "proxies"}

QueryKeys ==
    { K("generator_settings"), K("min_passwords"), K("login_types"),
      K("Gaming_Rig"), K("High"), K("Laptop "), K("identifier"), K("absent"),
      I(0), I(7) }

RECURSIVE Paths(_)
Paths(n) ==
    IF n = 0 THEN { << >> }
    ELSE LET shorter == Paths(n - 1)
         IN shorter \cup { Append(q, k) : q \in {x \in shorter : Len(x) = n - 1},
                                           k \in QueryKeys }

\* the value passed as default=, None when the caller passes none
SuppliedDefault == S("D")

NotAsked == [raised |-> FALSE, value |-> [t |-> "pending"]]

GetFamilies == {"atomic", "lumma", "redline", "stealc"}

InitGet ==
    /\ family \in GetFamilies
    /\ configs = AtomicConfig(2, 1, 3)
    /\ query \in [config_name : QueryDomains, keys : Paths(MaxPathLen),
                  has_default : BOOLEAN]
    /\ answer = NotAsked
    /\ rng = Seeded(0)
    /\ last = None
    /\ ref = None

GetCall ==
    /\ answer = NotAsked
    /\ LET default == IF query.has_default THEN SuppliedDefault ELSE None
           r == Get(family, configs, query.config_name, query.keys, default)
       IN answer' = [raised |-> r = Raised, value |-> r]
    /\ UNCHANGED <<family, configs, rng, last, ref, query>>

NextGet == GetCall

SpecGet == InitGet /\ [][NextGet]_vars

(***************************************************************************)
(* Properties of ConfigurationManager.get (specification SpecGet).         *)
(***************************************************************************)
\* what a key path denotes in a configuration tree: Absent, or the value
\* reached through mappings (and, with through_lists, through sequences at
\* in-range integer segments)
Absent == [t |-> "absent"]

RECURSIVE Stored(_, _, _, _)
Stored(value, keys, i, through_lists) ==
    IF i > Len(keys) THEN value
    ELSE LET key == keys[i]
         IN IF IsDict(value) /\ key.k = "str" /\ key.s \in DOMAIN value.d
            THEN Stored(value.d[key.s], keys, i + 1, through_lists)
            ELSE IF through_lists /\ IsList(value) /\ key.k = "int"
                    /\ 0 <= key.i /\ key.i < Len(value.l)
            THEN Stored(value.l[key.i + 1], keys, i + 1, through_lists)
            ELSE Absent

StoredAt(through_lists) ==
    IF query.config_name \in DOMAIN configs
    THEN Stored(configs[query.config_name], query.keys, 1, through_lists)
    ELSE Absent

Answered == answer # NotAsked

QueryDefault == IF query.has_default THEN SuppliedDefault ELSE None

\* C7: get(domain, *keys, default=D) never raises, returns D whenever the
\* path of (string) keys is absent from the loaded configuration, and returns
\* the stored value when the path is present.
C7_GetDefaultIffAbsent ==
    (Answered /\ \A i \in 1..Len(query.keys) : query.keys[i].k = "str")
    => /\ ~answer.raised
       /\ answer.value = IF StoredAt(FALSE) = Absent THEN QueryDefault
                         ELSE StoredAt(FALSE)

\* C8: a get on a domain that was never loaded, with no default supplied,
\* fails with a configuration-domain error instead of returning a value.
C8_UnloadedDomainFails ==
    (Answered /\ query.config_name \notin DOMAIN configs /\ ~query.has_default)
    => answer.raised

\* C9: in every script's ConfigurationManager, get continues through a list
\* at an in-range integer segment: a path that leads to a value through
\* mappings and sequences returns that value.
C9_IntegerSegmentIndexesList ==
    (/\ Answered
     /\ \E i \in 1..Len(query.keys) : query.keys[i].k = "int"
     /\ StoredAt(TRUE) # Absent)
    => answer.value = StoredAt(TRUE)

(***************************************************************************)
(* TemplateRenderer.render as a function of the template and of its        *)
(* keyword arguments: Init draws the script, the templates domain and the  *)
(* call, RenderCall applies render. Templates and values are sequences of  *)
(* characters.                                                             *)
(***************************************************************************)
\* longest template
MaxTemplateLen == 4

TemplateChars == {"{", "}", "a", "b", "x"}

RECURSIVE Strings(_, _)
Strings(chars, n) ==
    IF n = 0 THEN { << >> }
    ELSE LET shorter == Strings(chars, n - 1)
         IN shorter \cup { Append(s, c) : s \in {x \in shorter : Len(x) = n - 1},
                                           c \in chars }

\* the values a caller passes for a placeholder
RenderValues == { << >>, <<"v">>, <<"{">>, <<"{", "b", "}">> }

\* **kwargs: keyword arguments, distinct names in passing order
Kwargs ==
    LET pair == [key : {"a", "b"}, value : RenderValues]
    IN { << >> } \cup { <<p>> : p \in pair }
       \cup { pq \in { <<p, q>> : p \in pair, q \in pair } : pq[1].key # pq[2].key }

\* the templates domain with one template, named entry
TemplatesConfig(template) == "templates" :> D("entry" :> S(template))

\* s.startswith(prefix)
StartsWith(s, prefix) ==
    Len(prefix) <= Len(s) /\ SubSeq(s, 1, Len(prefix)) = prefix

\* s.replace(old, new) for a non-empty old: every occurrence of old, found
\* left to right without overlap, becomes new
RECURSIVE Replace(_, _, _)
Replace(s, old, new) ==
    IF Len(s) < Len(old) THEN s
    ELSE IF StartsWith(s, old)
    THEN new \o Replace(SubSeq(s, Len(old) + 1, Len(s)), old, new)
    ELSE <<Head(s)>> \o Replace(Tail(s), old, new)

\* f"{{{key}}}"
Placeholder(key) == <<"{", key, "}">>

\* for key, value in kwargs.items(): template = template.replace(...)
RECURSIVE Substituted(_, _)
Substituted(template, kwargs) ==
    IF kwargs = << >> THEN template
    ELSE Substituted(Replace(template, Placeholder(Head(kwargs).key),
                             Head(kwargs).value),
                     Tail(kwargs))

\* TemplateRenderer.render(template_name, **kwargs) on a templates domain
\* whose templates are strings
render(fam, cfgs, template_name, kwargs) ==
    LET template == Get(fam, cfgs, "templates", <<K(template_name)>>, S(<< >>))
    IN IF template.s = << >> THEN << >>
       ELSE Substituted(template.s, kwargs)

NotRendered == [raised |-> FALSE, value |-> [t |-> "pending"]]

InitRender ==
    /\ family \in GetFamilies
    /\ configs \in { TemplatesConfig(t) : t \in Strings(TemplateChars, MaxTemplateLen) }
    /\ query \in [template_name : {"entry", "absent"}, kwargs : Kwargs]
    /\ answer = NotRendered
    /\ rng = Seeded(0)
    /\ last = None
    /\ ref = None

RenderCall ==
    /\ answer = NotRendered
    /\ answer' = [raised |-> FALSE,
                  value |-> S(render(family, configs, query.template_name,
                                     query.kwargs))]
    /\ UNCHANGED <<family, configs, rng, last, ref, query>>

NextRender == RenderCall

SpecRender == InitRender /\ [][NextRender]_vars

(***************************************************************************)
(* Properties of TemplateRenderer.render (specification SpecRender).       *)
(***************************************************************************)
Rendered == answer # NotRendered

\* the template the call names, when the templates domain holds it
KnownTemplate == query.template_name \in DOMAIN configs["templates"].d

TemplateText == configs["templates"].d[query.template_name].s

SuppliedNames == { query.kwargs[i].key : i \in 1..Len(query.kwargs) }

SuppliedValue(name) ==
    (CHOOSE p \in { query.kwargs[i] : i \in 1..Len(query.kwargs) } :
        p.key = name).value

\* the names n for which text holds the placeholder {n}
NamesIn(text) ==
    { text[i + 1] : i \in { j \in 1..(Len(text) - 2) :
                              /\ text[j] = "{"
                              /\ text[j + 1] \notin {"{", "}"}
                              /\ text[j + 2] = "}" } }

\* text with each placeholder of a supplied name replaced by the variable's
\* value and every other character kept, in one pass from the left
RECURSIVE LiteralSubstitution(_)
LiteralSubstitution(text) ==
    IF text = << >> THEN << >>
    ELSE IF Len(text) >= 3 /\ text[1] = "{" /\ text[3] = "}"
            /\ text[2] \in SuppliedNames
    THEN SuppliedValue(text[2]) \o LiteralSubstitution(SubSeq(text, 4, Len(text)))
    ELSE <<Head(text)>> \o LiteralSubstitution(Tail(text))

\* C11: render substitutes the {name} placeholders of the supplied variables
\* only and literally: a placeholder of a name that was not supplied stays
\* verbatim and raises no error, and the text outside placeholders is
\* unchanged.
C11_LiteralSubstitutionOnly ==
    (Rendered /\ KnownTemplate)
    => /\ ~answer.raised
       /\ answer.value.s = LiteralSubstitution(TemplateText)

\* C12: rendering a known template with variables for every placeholder the
\* template names leaves no {name} placeholder in the output, whatever the
\* values and the order of the variables.
C12_CompleteMapLeavesNoPlaceholder ==
    (Rendered /\ KnownTemplate /\ NamesIn(TemplateText) \subseteq SuppliedNames)
    => NamesIn(answer.value.s) = {}

(***************************************************************************)
(* Batch runs: processes of the five scripts started one after another on  *)
(* one persona CSV and one disk. query holds the CSV file; answer holds    *)
(* the running process (pc, personas, position i, generated_logs), the     *)
(* exit statuses so far, the clock, the log lines printed so far and the   *)
(* disk. SpecBatch is one batch run in which calls may raise, SpecRerun a  *)
(* series of batch runs in which none does.                                *)
(***************************************************************************)
\* most rows of the CSV
MaxRoster == 2

\* most processes started one after another on the same disk
MaxProcesses == 2

\* latest reading of the clock, in seconds
MaxClock == 1

\* most generate_<family>_log calls that raise
MaxFaults == 1

Families == {"atomic", "lumma", "redline", "stealc", "vidar"}

\* str.strip(): blanks and line breaks at either end are dropped
RECURSIVE Strip(_)
Strip(s) ==
    IF s = << >> THEN s
    ELSE IF Head(s) \in {" ", "\n"} THEN Strip(Tail(s))
    ELSE IF s[Len(s)] \in {" ", "\n"} THEN Strip(SubSeq(s, 1, Len(s) - 1))
    ELSE s

\* str.lower(), for the capitals the model uses
Lower(s) ==
    LET upper == <<"A", "C", "L", "R", "S", "V", "O", "W">>
        lower == <<"a", "c", "l", "r", "s", "v", "o", "w">>
    IN [i \in 1..Len(s) |->
          IF \E j \in 1..Len(upper) : upper[j] = s[i]
          THEN lower[CHOOSE j \in 1..Len(upper) : upper[j] = s[i]]
          ELSE s[i]]

\* sub in s
IsSubstring(sub, s) ==
    \E i \in 0..(Len(s) - Len(sub)) : SubSeq(s, i + 1, i + Len(sub)) = sub

\* the family names as the loaders spell them
FamilyTag(fam) ==
    CASE fam = "atomic" -> <<"a", "t", "o", "m", "i", "c">>
      [] fam = "lumma" -> <<"l", "u", "m", "m", "a">>
      [] fam = "redline" -> <<"r", "e", "d", "l", "i", "n", "e">>
      [] fam = "stealc" -> <<"s", "t", "e", "a", "l", "c">>
      [] fam = "vidar" -> <<"V", "i", "d", "a", "r">>

\* the substring of the OS column a loader asks for
FamilyPlatform(fam) ==
    IF fam = "atomic" THEN <<"m", "a", "c", "O", "S">>
    ELSE <<"W", "i", "n", "d", "o", "w", "s">>

\* the rows a CSV is made of: the Infection and OS columns
Cells ==
    LET macos == <<"m", "a", "c", "O", "S", " ", "1", "4">>
        windows == <<"W", "i", "n", "d", "o", "w", "s", " ", "1", "1">>
        Cell(infection, os) == [Infection |-> infection, OS |-> os]
    IN { Cell(<<" ", "a", "t", "o", "m", "i", "c", " ">>, macos),
         Cell(<<"A", "t", "o", "m", "i", "c">>, windows),
         Cell(<<"L", "u", "m", "m", "a">>, windows),
         Cell(<<"R", "e", "d", "L", "i", "n", "e">>, windows),
         Cell(<<"S", "t", "e", "a", "l", "C">>, windows),
         Cell(<<"V", "i", "d", "a", "r">>, macos),
         Cell(<<"v", "i", "d", "a", "r">>, windows) }

\* the CSV files: row n has PersonaID n
Rosters ==
    LET Row(n, c) == [PersonaID |-> n, FirstName |-> "Ann", LastName |-> "Lee",
                      Infection |-> c.Infection, OS |-> c.OS]
    IN UNION { { [n \in 1..len |-> Row(n, cs[n])] : cs \in [1..len -> Cells] } :
               len \in 0..MaxRoster }

\* load_atomic_personas, load_lumma_personas, load_redline_personas,
\* _load_windows_personas (default sample size, no exclusions) and
\* load_vidar_personas: the rows kept, in the order of the file
SelectsByPlatform(fam, row) == IsSubstring(FamilyPlatform(fam), row.OS)

Selects(fam, row) ==
    IF fam = "vidar" THEN row.Infection = FamilyTag(fam)
    ELSE /\ Lower(Strip(row.Infection)) = FamilyTag(fam)
         /\ IsSubstring(FamilyPlatform(fam), row.OS)

load_personas_latest_first(fam, rows) ==
    LET kept == SelectSeq(rows, LAMBDA row : Selects(fam, row))
    IN [n \in 1..Len(kept) |-> kept[Len(kept) + 1 - n]]

load_personas(fam, rows) == SelectSeq(rows, LAMBDA row : Selects(fam, row))

\* the leaf files every log of the script holds, in the order of writing (the
\* files written per browser profile and the binary screenshot are left out);
\* Atomic takes its names from main.file_structure
LeafFiles(fam) ==
    CASE fam = "atomic" -> <<"user_info_filename", "passwords_filename",
                             "brute_filename", "autofills_filename",
                             "google_tokens_filename", "keychain_filename">>
      [] fam = "lumma" -> <<"System.txt", "All Passwords.txt", "Brute.txt">>
      [] fam = "redline" -> <<"UserInformation.txt", "Passwords.txt",
                              "ImportantAutofills.txt">>
      [] fam = "stealc" -> <<"copyright.txt", "system_info.txt", "passwords.txt">>
      [] fam = "vidar" -> <<"cookie_list.txt", "information.txt", "passwords.txt">>

\* log_dir of generate_<family>_log: now is the reading of datetime.now() in
\* seconds, drawn the HWID or log id made from the unseeded generator
LogDir(fam, persona, now, drawn) ==
    CASE fam = "atomic" ->
           [base |-> ".", prefix |-> "Atomic", id |-> persona.PersonaID,
            suffix |-> <<persona.FirstName, persona.LastName>>]
      [] fam = "lumma" ->
           [base |-> "lumma_logs", prefix |-> "Lumma", id |-> persona.PersonaID,
            suffix |-> <<drawn>>]
      [] fam = "redline" ->
           [base |-> "redline_logs", prefix |-> "RedLine",
            id |-> persona.PersonaID, suffix |-> <<drawn>>]
      [] fam = "stealc" ->
           [base |-> "stealc_logs", prefix |-> "StealC", id |-> persona.PersonaID,
            suffix |-> <<now>>]
      [] fam = "vidar" ->
           [base |-> "vidar_logs", prefix |-> "Vidar", id |-> persona.PersonaID,
            suffix |-> <<now>>]

\* the text a generator returns for one file, as the two blocks in which it
\* reaches the disk
FileText(persona, filename) ==
    << <<persona.PersonaID, filename, 1>>, <<persona.PersonaID, filename, 2>> >>

\* what can go wrong in one generate_<family>_log call: nothing (at = 0), or
\* at leaf file at either an exception before the file is opened (its
\* generator or open raising) or one while the opened file is written, after
\* cut blocks
Faults(fam) ==
    { [at |-> 0, kind |-> "none", cut |-> 0] }
    \cup [at : 1..Len(LeafFiles(fam)), kind : {"raise"}, cut : {0}]
    \cup [at : 1..Len(LeafFiles(fam)), kind : {"write"}, cut : {0, 1}]

\* open(filepath, 'w') followed by f.write(content): the file is created or
\* truncated when it is opened, and holds the blocks written before an
\* exception. process and replaced record which process opened the file last
\* and whether it found a file there.
write_file(files, filepath, content, blocks, process) ==
    [p \in DOMAIN files \cup {filepath} |->
        IF p = filepath
        THEN [content |-> SubSeq(content, 1, blocks), intended |-> content,
              process |-> process, replaced |-> filepath \in DOMAIN files]
        ELSE files[p]]

\* generate_<family>_log: os.makedirs(log_dir, exist_ok=True), then the leaf
\* files one after another; the first exception ends the call
RECURSIVE WriteLeaves(_, _, _, _, _, _)
WriteLeaves(files, log_dir, persona, names, k, c) ==
    IF k > Len(names) \/ (c.fault.at = k /\ c.fault.kind = "raise") THEN files
    ELSE LET content == FileText(persona, names[k])
             filepath == [directory |-> log_dir, filename |-> names[k]]
         IN IF c.fault.at = k
            THEN write_file(files, filepath, content, c.fault.cut, c.process)
            ELSE WriteLeaves(write_file(files, filepath, content, Len(content),
                                        c.process),
                             log_dir, persona, names, k + 1, c)

generate_log(fam, disk, persona, now, drawn, fault, process) ==
    LET log_dir == LogDir(fam, persona, now, drawn)
    IN [log_dir |-> log_dir,
        raised |-> fault.at # 0,
        fresh |-> log_dir \notin disk.dirs,
        disk |-> [dirs |-> disk.dirs \cup {log_dir},
                  files |-> WriteLeaves(disk.files, log_dir, persona,
                                        LeafFiles(fam), 1,
                                        [fault |-> fault, process |-> process])]]

\* the readings datetime.now() can give after the reading before, for the
\* scripts that name the directory after the time
Readings(fam, before) ==
    IF fam \in {"stealc", "vidar"} THEN before..MaxClock ELSE {before}

\* generate_hwid and generate_log_id, drawn from the generator as the process
\* start or the persona before left it: the value of an earlier run (0) or
\* one no call has given (calls is the number of log lines before)
Draws(fam, calls) == IF fam \in {"lumma", "redline"} THEN {0, calls + 1} ELSE {0}

\* a log line
Line(process, fam, event, id) ==
    [process |-> process, family |-> fam, event |-> event, id |-> id]

\* no process has run: starts is the number of processes that may still be
\* started, failures the number of generate_<family>_log calls that may
\* still raise
NoProcess(starts, failures) ==
    [pc |-> "idle", process |-> 0, personas |-> << >>, i |-> 0,
     generated_logs |-> << >>, exited |-> << >>, now |-> 0, starts |-> starts,
     failures |-> failures, log |-> << >>, disk |-> [dirs |-> {}, files |-> << >>]]

\* the CSV file: its rows, or a file that cannot be read
CsvFiles ==
    [rows : Rosters, readable : {TRUE}] \cup [rows : { << >> }, readable : {FALSE}]

InitProcesses(starts, failures) ==
    /\ family = "atomic"
    /\ configs = << >>
    /\ query \in CsvFiles
    /\ answer = NoProcess(starts, failures)
    /\ rng = Seeded(0)
    /\ last = None
    /\ ref = None

\* main up to the start of generate_all_<family>_logs: the generator object
\* is built and loads its personas; a CSV file that cannot be read is fatal
StartProcess ==
    /\ answer.pc = "idle"
    /\ answer.starts > 0
    /\ \E fam \in Families :
         LET process == answer.process + 1
             personas == load_personas(fam, query.rows)
             selected == [n \in 1..Len(personas) |->
                            Line(process, fam, "selected", personas[n].PersonaID)]
             started == [answer EXCEPT !.process = process, !.starts = @ - 1]
         IN /\ family' = fam
            /\ answer' =
                 IF query.readable
                 THEN [started EXCEPT !.pc = "loop",
                                      !.personas = personas, !.i = 0,
                                      !.generated_logs = << >>,
                                      !.log = @ \o selected]
                 ELSE [started EXCEPT !.exited = Append(@, 1),
                                      !.log = Append(@, Line(process, fam, "fatal", 0))]
    /\ UNCHANGED <<configs, rng, last, ref, query>>

\* one turn of the loop of generate_all_<family>_logs:
\* try: log_dir = generate_<family>_log(persona); generated_logs.append(log_dir)
\* except Exception: the failure is logged (caught), and the loop goes on
Turn(caught) ==
    /\ answer.pc = "loop"
    /\ answer.i < Len(answer.personas)
    /\ \E now \in Readings(family, answer.now),
          drawn \in Draws(family, Len(answer.log)),
          fault \in { f \in Faults(family) : f.at = 0 \/ answer.failures > 0 } :
         LET persona == answer.personas[answer.i + 1]
             r == generate_log(family, answer.disk, persona, now, drawn, fault,
                               answer.process)
             generating == Line(answer.process, family, "generating",
                                persona.PersonaID)
                           @@ [log_dir |-> r.log_dir, fresh |-> r.fresh]
             outcome == Line(answer.process, family,
                             IF r.raised THEN "failed" ELSE "generated",
                             persona.PersonaID)
             after == [answer EXCEPT
                         !.i = @ + 1,
                         !.now = now,
                         !.failures = IF r.raised THEN @ - 1 ELSE @,
                         !.disk = r.disk,
                         !.generated_logs = IF r.raised THEN @
                                            ELSE Append(@, r.log_dir),
                         !.log = @ \o <<generating, outcome>>]
         IN answer' = IF r.raised /\ ~caught
                      THEN [after EXCEPT !.pc = "idle", !.exited = Append(@, 1)]
                      ELSE after
    /\ UNCHANGED <<family, configs, rng, last, ref, query>>

AttemptAborting == Turn(FALSE)

Attempt == Turn(TRUE)

\* the end of generate_all_<family>_logs and of main: the number of logs
\* generated is reported (RedLine also warns of the number that failed) and
\* the process ends
EndProcess ==
    /\ answer.pc = "loop"
    /\ answer.i = Len(answer.personas)
    /\ LET generated == Len(answer.generated_logs)
           summary == [Line(answer.process, family, "summary", 0)
                         EXCEPT !.id = generated]
           warning == [Line(answer.process, family, "warning", 0)
                         EXCEPT !.id = Len(answer.personas) - generated]
       IN answer' = [answer EXCEPT
                       !.pc = "idle",
                       !.exited = Append(@, 0),
                       !.log = IF family = "redline"
                                  /\ generated < Len(answer.personas)
                               THEN @ \o <<summary, warning>>
                               ELSE Append(@, summary)]
    /\ UNCHANGED <<family, configs, rng, last, ref, query>>

NextBatch == StartProcess \/ Attempt \/ EndProcess

\* one batch run in which calls may raise
InitBatch == InitProcesses(1, MaxFaults)

SpecBatch == InitBatch /\ [][NextBatch]_vars

\* batch runs of the five scripts one after another, in which no call raises
InitRerun == InitProcesses(MaxProcesses, 0)

SpecRerun == InitRerun /\ [][NextBatch]_vars

(***************************************************************************)
(* Properties of the batch runs (specification SpecBatch).                 *)
(***************************************************************************)
\* the lines of one kind a process has logged, in order
LogLines(process, event) ==
    SelectSeq(answer.log, LAMBDA l : l.process = process /\ l.event = event)

\* the PersonaIDs of a sequence of rows or log lines
PersonaIDs(rows) == [n \in 1..Len(rows) |-> rows[n].PersonaID]

LineIds(lines) == [n \in 1..Len(lines) |-> lines[n].id]

\* the process has loaded its personas and left its loop
BatchEnded ==
    /\ answer.pc = "idle"
    /\ answer.process > 0
    /\ LogLines(answer.process, "fatal") = << >>

HasFailed(process) == LogLines(process, "failed") # << >>

\* C13: a failure while generating one persona's log never aborts the batch:
\* the failure is logged, every later persona of the list is still attempted,
\* and the loop ends after attempting each persona exactly once.
C13_FailureDoesNotAbortBatch ==
    /\ answer.pc = "loop"
       => /\ LineIds(LogLines(answer.process, "generating"))
               = SubSeq(PersonaIDs(answer.personas), 1, answer.i)
          /\ Len(LogLines(answer.process, "failed")) + Len(answer.generated_logs)
               = answer.i
    /\ BatchEnded
       => /\ LineIds(LogLines(answer.process, "generating"))
               = PersonaIDs(answer.personas)
          /\ Len(LogLines(answer.process, "failed")) + Len(answer.generated_logs)
               = Len(answer.personas)
          /\ Len(LogLines(answer.process, "summary")) = 1

\* a batch has ended in which a persona failed and a later one was attempted
C13_Witness ==
    /\ BatchEnded
    /\ \E n \in 1..Len(answer.log), m \in 1..Len(answer.log) :
         /\ n < m
         /\ answer.log[n].process = answer.process
         /\ answer.log[n].event = "failed"
         /\ answer.log[m].process = answer.process
         /\ answer.log[m].event = "generating"

\* C14: a batch run in which at least one persona failed reports the numbers
\* of successes and of failures and exits with a non-zero status; the status
\* is zero only when no persona failed.
C14_FailuresGiveNonZeroExit ==
    \A process \in 1..Len(answer.exited) :
        /\ HasFailed(process)
           => /\ answer.exited[process] # 0
              /\ Len(LogLines(process, "summary")) = 1
              /\ Len(LogLines(process, "warning")) = 1
        /\ answer.exited[process] = 0 => ~HasFailed(process)

\* C15: personas are processed one at a time in the order of the CSV rows,
\* and generated_logs holds one entry per persona whose log was generated, in
\* that order, and none for a persona that failed.
C15_GeneratedLogsInRosterOrder ==
    answer.process > 0 /\ LogLines(answer.process, "fatal") = << >>
    => LET attempted == LogLines(answer.process, "generating")
           failed == { l.id : l \in { answer.log[n] : n \in
                         { m \in 1..Len(answer.log) :
                             /\ answer.log[m].process = answer.process
                             /\ answer.log[m].event = "failed" } } }
           succeeded == SelectSeq(attempted, LAMBDA l : l.id \notin failed)
       IN /\ \A n \in 1..(Len(attempted) - 1) : attempted[n].id < attempted[n + 1].id
          /\ answer.generated_logs
               = [n \in 1..Len(succeeded) |-> succeeded[n].log_dir]

\* a batch of two personas has ended, the first failed and the second did not
C15_Witness ==
    /\ BatchEnded
    /\ Len(answer.personas) = 2
    /\ Len(answer.generated_logs) = 1
    /\ LineIds(LogLines(answer.process, "failed"))
         = <<answer.personas[1].PersonaID>>

\* C16: generating a persona's log again always makes a new root directory:
\* no two generation runs for one persona write into the same root path.
C16_RerunMakesNewRoot ==
    \A n \in 1..Len(answer.log) :
        answer.log[n].event = "generating" => answer.log[n].fresh

\* C17: every leaf file write is all-or-nothing: whatever fails, each file of
\* the output tree holds its complete intended content or is absent or has
\* its earlier content; none is left empty or truncated.
C17_LeafWritesAllOrNothing ==
    \A filepath \in DOMAIN answer.disk.files :
        answer.disk.files[filepath].content = answer.disk.files[filepath].intended

\* C18: when a generation run for a persona has completed, the persona's root
\* directory holds only files written by that run, and no file of an earlier
\* run was updated in place or left behind.
C18_OutputTreeCreatedFresh ==
    (Len(answer.log) >= 2 /\ answer.log[Len(answer.log)].event = "generated")
    => LET run == answer.log[Len(answer.log) - 1]
       IN \A filepath \in DOMAIN answer.disk.files :
             filepath.directory = run.log_dir
             => /\ answer.disk.files[filepath].process = run.process
                /\ ~answer.disk.files[filepath].replaced

\* the row carries the family's name in the Infection column, compared
\* without case and surrounding blanks, and an OS of the family's platform
Assigned(fam, row) ==
    /\ Lower(Strip(row.Infection)) = Lower(FamilyTag(fam))
    /\ IsSubstring(FamilyPlatform(fam), row.OS)

\* C19: each generator's persona list is the roster filtered to its family:
\* the rows whose family tag names the family (case-insensitively, trimmed)
\* and whose platform matches, and every such row.
C19_RosterFilteredToFamily ==
    answer.pc = "loop"
    => answer.personas = SelectSeq(query.rows, LAMBDA row : Assigned(family, row))

\* C20: each persona is infected once: a row is selected by at most one of
\* the five generators, and within one batch a log is generated for it at
\* most once.
C20_PersonaInfectedOnce ==
    /\ \A n \in 1..Len(answer.log), m \in 1..Len(answer.log) :
         (/\ answer.log[n].event = "selected"
          /\ answer.log[m].event = "selected"
          /\ answer.log[n].id = answer.log[m].id)
         => answer.log[n].family = answer.log[m].family
    /\ \A n \in 1..Len(answer.log), m \in 1..Len(answer.log) :
         (/\ answer.log[n].event = "generating"
          /\ answer.log[m].event = "generating"
          /\ answer.log[n].process = answer.log[m].process
          /\ answer.log[n].id = answer.log[m].id)
         => n = m

\* two different generators have each selected and processed a persona of
\* the same roster
C20_Witness ==
    \E n \in 1..Len(answer.log), m \in 1..Len(answer.log) :
        /\ answer.log[n].event = "generated"
        /\ answer.log[m].event = "generated"
        /\ answer.log[n].family # answer.log[m].family

(***************************************************************************)
(* Purpose tags and other literals that enter seed strings.                *)
(***************************************************************************)
(* Statements in sequence.  A handler's local variables are a record e     *)
(* whose field st is the state of the generator; a handler is the          *)
(* composition of its statements, each a step from record to record.       *)
(***************************************************************************)
\* range(n)
range(n) == [i \in 1..n |-> i - 1]

\* for item in items: <Body>, on the local variables e of the handler; also
\* the statements named by items, in order.  The passes over the first half
\* of the items are made, then those over the second half; e is evaluated
\* before a pass is entered.
RECURSIVE ForEach(_, _, _)
ForEach(Body(_, _), items, e) ==
    IF "st" \notin DOMAIN e \/ items = << >> THEN e
    ELSE IF Len(items) = 1 THEN Body(e, items[1])
    ELSE ForEach(Body, SubSeq(items, Len(items) \div 2 + 1, Len(items)),
                 ForEach(Body, SubSeq(items, 1, Len(items) \div 2), e))

\* name = value
Set(e, name, value) ==
    IF name \in DOMAIN e THEN [e EXCEPT ![name] = value] ELSE e @@ (name :> value)

\* name = <a call that draws>: r is the call's [v, st]
Bind(e, name, r) ==
    IF name \in DOMAIN e THEN [e EXCEPT !.st = r.st, ![name] = r.v]
    ELSE [e EXCEPT !.st = r.st] @@ (name :> r.v)

(***************************************************************************)
Tag ==
    [hardware |-> <<"h", "a", "r", "d", "w", "a", "r", "e">>,
     userinfo |-> <<"u", "s", "e", "r", "i", "n", "f", "o">>,
     passwords |-> <<"p", "a", "s", "s", "w", "o", "r", "d", "s">>,
     cookies |-> <<"c", "o", "o", "k", "i", "e", "s">>,
     autofills |-> <<"a", "u", "t", "o", "f", "i", "l", "l", "s">>,
     tokens |-> <<"t", "o", "k", "e", "n", "s">>,
     keychain |-> <<"k", "e", "y", "c", "h", "a", "i", "n">>,
     system |-> <<"s", "y", "s", "t", "e", "m">>,
     history |-> <<"h", "i", "s", "t", "o", "r", "y">>,
     software |-> <<"s", "o", "f", "t", "w", "a", "r", "e">>,
     processes |-> <<"p", "r", "o", "c", "e", "s", "s", "e", "s">>,
     clipboard |-> <<"c", "l", "i", "p", "b", "o", "a", "r", "d">>,
     filegrabber |-> <<"f", "i", "l", "e", "g", "r", "a", "b", "b", "e", "r">>,
     google |-> <<"g", "o", "o", "g", "l", "e">>,
     Chrome |-> <<"C", "h", "r", "o", "m", "e">>,
     Edge |-> <<"E", "d", "g", "e">>,
     Default |-> <<"D", "e", "f", "a", "u", "l", "t">>,
     Profile |-> <<"P", "r", "o", "f", "i", "l", "e", " ">>]

\* the character classes of the built-in default charsets
AsciiUpper ==
    <<"A", "B", "C", "D", "E", "F", "G", "H", "I", "J", "K", "L", "M",
      "N", "O", "P", "Q", "R", "S", "T", "U", "V", "W", "X", "Y", "Z">>
AsciiLower ==
    <<"a", "b", "c", "d", "e", "f", "g", "h", "i", "j", "k", "l", "m",
      "n", "o", "p", "q", "r", "s", "t", "u", "v", "w", "x", "y", "z">>
Digits == <<"0", "1", "2", "3", "4", "5", "6", "7", "8", "9">>

\* one random.randint(r['min'], r['max']) per range object of a list
RECURSIVE RandInts(_, _)
RandInts(st, ranges) ==
    IF ranges = << >> THEN [v |-> << >>, st |-> st]
    ELSE LET Rest(r) == [RandInts(r.st, Tail(ranges)) EXCEPT !.v = <<r.v>> \o @]
         IN Rest(RandInt(st, Head(ranges).d["min"].n, Head(ranges).d["max"].n))

(***************************************************************************)
(* Atomic: HardwareGenerator.generate with _generate_serial_number and     *)
(* _generate_hardware_uuid.                                                *)
(***************************************************************************)
AtomicHardwareGenerator(cfgs, persona, st) ==
    LET OrDefault(own) ==
            IF own = None
            THEN AtomicGet(cfgs, "hardware", <<K("Personal_Laptop"), K("Medium")>>, None)
            ELSE own
        hardware_config(e) ==
            Set(e, "hardware_config",
                OrDefault(AtomicGet(cfgs, "hardware",
                              <<K(persona.device_type), K(persona.income_level)>>,
                              None)).d)
        model_id(e) == Bind(e, "model_id", Choice(e.st, e.hardware_config["identifier"].l))
        chip(e) == Bind(e, "chip", Choice(e.st, e.hardware_config["chip"].l))
        cores(e) == Bind(e, "cores", Choice(e.st, e.hardware_config["cores"].l))
        memory(e) == Bind(e, "memory", Choice(e.st, e.hardware_config["memory"].l))
        serial_num(e) ==
            Bind(e, "serial_num",
                 Choices(e.st,
                         AtomicGet(cfgs, "charsets", <<K("serial_number")>>,
                                   S(AsciiUpper \o Digits)).s,
                         AtomicGet(cfgs, "main",
                                   <<K("generator_settings"), K("serial_number_length")>>,
                                   N(10)).n))
        hardware_uuid(e) ==
            Bind(e, "hardware_uuid",
                 RandInts(e.st, AtomicGet(cfgs, "ranges", <<K("hardware_uuid")>>, None).l))
        Result(e) ==
            [v |-> [model_name |-> e.hardware_config["model"], model_id |-> e.model_id,
                    chip |-> e.chip, cores |-> e.cores, memory |-> e.memory,
                    display_res |-> e.hardware_config["display"],
                    serial_num |-> e.serial_num, hardware_uuid |-> e.hardware_uuid],
             st |-> e.st]
    IN Result(hardware_uuid(serial_num(memory(cores(chip(model_id(hardware_config(
           [st |-> Seed(st, get_persona_seed(persona.persona_id, Tag.hardware))]))))))))

(***************************************************************************)
(* Atomic: UserInfoGenerator.generate.  It seeds with 'userinfo', then     *)
(* calls the hardware generator and draws the IP suffixes afterwards.      *)
(***************************************************************************)
AtomicUserInfoGenerator(cfgs, persona, st) ==
    LET hardware(e) == Bind(e, "hardware", AtomicHardwareGenerator(cfgs, persona, e.st))
        Prefix(ip_ranges) == IF persona.country \in DOMAIN ip_ranges
                             THEN ip_ranges[persona.country] ELSE ip_ranges["default"]
        ip_prefix(e) ==
            Set(e, "ip_prefix",
                Prefix(AtomicGet(cfgs, "network", <<K("country_ip_ranges")>>, None).d).s)
        ip_last(e) == Bind(e, "ip_last", RandInt(e.st, 1, 254))
        ip_suffix(e) == Bind(e, "ip_suffix", RandInt(e.st, 100000000, 999999999))
        Result(e) ==
            [v |-> [hardware |-> e.hardware, ip |-> <<e.ip_prefix, e.ip_last>>,
                    ip_suffix |-> e.ip_suffix, country |-> persona.country],
             st |-> e.st]
    IN Result(ip_suffix(ip_last(ip_prefix(hardware(
           [st |-> Seed(st, get_persona_seed(persona.persona_id, Tag.userinfo))])))))

(***************************************************************************)
(* Atomic: PasswordGenerator.                                              *)
(***************************************************************************)
\* _select_password without the reuse branch: always a random pool element
select_password_drawn(habit, available_passwords, st) ==
    Choice(st, available_passwords)

\* PasswordGenerator._select_password
select_password(habit, available_passwords, st) ==
    IF habit = "Reuses_Passwords"
    THEN [v |-> available_passwords[1], st |-> st]
    ELSE Choice(st, available_passwords)

\* PasswordGenerator._generate_login
generate_login(cfgs, persona, st) ==
    LET Numbers(weights) == [i \in DOMAIN weights |-> weights[i].n]
        login_type(e) ==
            Bind(e, "login_type",
                 WeightedChoice(e.st,
                     AtomicGet(cfgs, "main", <<K("login_types")>>,
                               L(<<S("empty"), S("email"), S("username")>>)).l,
                     Numbers(AtomicGet(cfgs, "main", <<K("login_weights")>>,
                                       L(<<N(1), N(1), N(1)>>)).l)))
        number(e) == Bind(e, "number", RandInt(e.st, 100, 999))
        Username(e) == [v |-> <<persona.first_name, e.number>>, st |-> e.st]
        Result(e) ==
            IF e.login_type = S("empty") THEN [v |-> "", st |-> e.st]
            ELSE IF e.login_type = S("email")
            THEN [v |-> persona.email_personal, st |-> e.st]
            ELSE Username(number(e))
    IN Result(login_type([st |-> st]))

\* PasswordGenerator.generate: the list of {URL, LOGIN, PASSWORD} entries
AtomicPasswordGenerator(cfgs, persona, st) ==
    LET num_passwords(e) ==
            Bind(e, "num_passwords",
                 RandInt(e.st,
                         AtomicGet(cfgs, "main",
                             <<K("generator_settings"), K("min_passwords")>>, None).n,
                         AtomicGet(cfgs, "main",
                             <<K("generator_settings"), K("max_passwords")>>, None).n))
        site(e) ==
            Bind(e, "site",
                 Choice(e.st,
                     AtomicGet(cfgs, "websites",
                         <<K("persona_websites"), K(persona.persona_archetype)>>,
                         L(<< >>)).l
                     \o AtomicGet(cfgs, "websites", <<K("common_websites")>>, L(<< >>)).l))
        login(e) == Bind(e, "login", generate_login(cfgs, persona, e.st))
        password(e) ==
            Bind(e, "password",
                 select_password(persona.password_habits,
                     AtomicGet(cfgs, "passwords", <<K(persona.password_habits)>>,
                               L(<<S("DefaultPass123!")>>)).l,
                     e.st))
        entry(e) == Set(e, "entries",
                        Append(e.entries, [url |-> e.site, login |-> e.login,
                                           password |-> e.password]))
        Entry(e, i) == entry(password(login(site(e))))
        Counted(e) == ForEach(Entry, range(e.num_passwords), e)
        Result(e) == [v |-> e.entries, st |-> e.st]
    IN Result(Counted(num_passwords(
           [st |-> Seed(st, get_persona_seed(persona.persona_id, Tag.passwords)),
            entries |-> << >>])))

\* PasswordGenerator.generate_brute: the PASSWORD lines of Passwords.txt
generate_brute(passwords_content) ==
    SelectSeq([i \in DOMAIN passwords_content |-> passwords_content[i].password],
              LAMBDA password : password # S(""))

(***************************************************************************)
(* Atomic: AutofillGenerator.generate and GoogleTokenGenerator.generate.   *)
(***************************************************************************)
AtomicAutofillGenerator(cfgs, persona, st) ==
    LET Parts(ranges) == <<ranges["area_code"], ranges["prefix"], ranges["suffix"]>>
        \* _generate_phone_number
        phone(e) ==
            Bind(e, "value",
                 RandInts(e.st, Parts(AtomicGet(cfgs, "ranges", <<K("phone_number")>>,
                                                None).d)))
        \* _generate_address
        street_num(e) ==
            Bind(e, "street_num",
                 RandInts(e.st, <<AtomicGet(cfgs, "ranges", <<K("street_number")>>,
                                            Range(100, 9999))>>))
        street_name(e) ==
            Bind(e, "street_name",
                 Choice(e.st, AtomicGet(cfgs, "network", <<K("autofill_street_names")>>,
                                  L(<<S("Oak St"), S("Main Ave"), S("Park Blvd"),
                                      S("First St"), S("Maple Dr")>>)).l))
        address(e) == Set(e, "value", <<e.street_num[1], e.street_name>>)
        \* _get_field_value
        value(e, field) ==
            IF field["type"] = S("persona_field")
            THEN Set(e, "value", persona[field["source"].s])
            ELSE IF field["type"] = S("generated") /\ field["generator"] = S("phone")
            THEN phone(e)
            ELSE IF field["type"] = S("generated") /\ field["generator"] = S("address")
            THEN address(street_name(street_num(e)))
            ELSE Set(e, "value", "")
        line(e, field) ==
            Set(e, "lines", Append(e.lines, [name |-> field["name"], value |-> e.value]))
        Field(e, field) == line(value(e, field.d), field.d)
        Result(e) == [v |-> e.lines, st |-> e.st]
    IN Result(ForEach(Field, AtomicGet(cfgs, "autofill", <<K("fields")>>, None).l,
                      [st |-> Seed(st, get_persona_seed(persona.persona_id, Tag.autofills)),
                       lines |-> << >>]))

AtomicTokenGenerator(cfgs, persona, st) ==
    LET num_tokens(e) ==
            Bind(e, "num_tokens", RandInt(e.st, e.settings["min_google_tokens"].n,
                                          e.settings["max_google_tokens"].n))
        middle(e) == Bind(e, "middle", RandInts(e.st, <<e.token_config["middle_range"]>>))
        suffix(e) ==
            Bind(e, "suffix",
                 Choices(e.st, AtomicGet(cfgs, "charsets", <<K("token_suffix")>>, None).s,
                         e.settings["token_suffix_length"].n))
        token(e) ==
            Set(e, "tokens",
                Append(e.tokens, [prefix |-> e.token_config["prefix"], middle |-> e.middle[1],
                                  connector |-> e.token_config["connector"],
                                  suffix |-> e.suffix]))
        Token(e, i) == token(suffix(middle(e)))
        Counted(e) == ForEach(Token, range(e.num_tokens), e)
        Result(e) == [v |-> e.tokens, st |-> e.st]
    IN Result(Counted(num_tokens(
           [st |-> Seed(st, get_persona_seed(persona.persona_id, Tag.tokens)),
            settings |-> AtomicGet(cfgs, "main", <<K("generator_settings")>>, None).d,
            token_config |-> AtomicGet(cfgs, "tokens", <<K("google")>>, None).d,
            tokens |-> << >>])))

(***************************************************************************)
(* Atomic: KeychainGenerator.generate.  The entries are a sample without   *)
(* replacement of the configured services, of size                         *)
(* min(num_entries, len(services)).  Dates are kept as the drawn offsets   *)
(* from datetime.now().                                                    *)
(***************************************************************************)
AtomicKeychainGenerator(cfgs, persona, st) ==
    LET macos_password(e) == Bind(e, "macos_password", Choice(e.st, e.passwords))
        num_entries(e) ==
            Bind(e, "num_entries",
                 RandInt(e.st,
                     AtomicGet(cfgs, "main",
                         <<K("generator_settings"), K("min_keychain_entries")>>, None).n,
                     AtomicGet(cfgs, "main",
                         <<K("generator_settings"), K("max_keychain_entries")>>, None).n))
        Clamped(e, services) == Sample(e.st, services, Min(e.num_entries, Len(services)))
        selected_services(e) ==
            Bind(e, "selected_services",
                 Clamped(e, AtomicGet(cfgs, "keychain", <<K("services")>>, None).l))
        \* _generate_keychain_entry
        Dates(date_ranges) == <<date_ranges["create"], date_ranges["modify"]>>
        dates(e) ==
            Bind(e, "dates",
                 RandInts(e.st, Dates(AtomicGet(cfgs, "ranges", <<K("keychain_dates")>>,
                                                None).d)))
        \* _generate_password_for_type
        length(e, config) ==
            Bind(e, "length", RandInt(e.st, config["min_length"].n, config["max_length"].n))
        from_charset(e, config) ==
            Bind(e, "password",
                 Choices(e.st,
                         AtomicGet(cfgs, "charsets", <<K(config["charset"].s)>>, None).s,
                         e.length))
        password(e, config) ==
            IF config["source"] = S("charset") THEN from_charset(length(e, config), config)
            ELSE IF config["source"] = S("persona")
            THEN Bind(e, "password", Choice(e.st, e.passwords))
            ELSE Set(e, "password", S("DefaultPassword"))
        entry(e, service) ==
            Set(e, "entries", Append(e.entries, [service |-> service["service"],
                                                 dates |-> e.dates,
                                                 password |-> e.password]))
        Typed(e, service) ==
            password(e, e.password_configs[service["password_type"].s].d)
        Entry(e, service) == entry(Typed(dates(e), service.d), service.d)
        Selected(e) == ForEach(Entry, e.selected_services, e)
        Result(e) ==
            [v |-> [macos_password |-> e.macos_password, num_entries |-> e.num_entries,
                    entries |-> e.entries],
             st |-> e.st]
    IN Result(Selected(selected_services(num_entries(macos_password(
           [st |-> Seed(st, get_persona_seed(persona.persona_id, Tag.keychain)),
            passwords |-> AtomicGet(cfgs, "passwords", <<K(persona.password_habits)>>,
                                    L(<<S("DefaultPass123!")>>)).l,
            password_configs |-> AtomicGet(cfgs, "keychain", <<K("password_types")>>,
                                           None).d,
            entries |-> << >>])))))

(***************************************************************************)
(* Atomic: CookieGenerator.generate: one cookie file per browser of the    *)
(* persona that has a profile entry.                                       *)
(***************************************************************************)
AtomicCookieGenerator(cfgs, persona, st) ==
    LET Setting(name, default) == AtomicGet(cfgs, "main",
                                      <<K("generator_settings"), K(name)>>, N(default)).n
        \* _get_browsers_for_persona
        Browsers(browser_profiles) ==
            (IF persona.primary_browser \in DOMAIN browser_profiles
             THEN <<browser_profiles[persona.primary_browser].d["primary"]>> ELSE << >>)
            \o (IF persona.secondary_browser \in DOMAIN browser_profiles
                THEN <<browser_profiles[persona.secondary_browser].d["secondary"]>>
                ELSE << >>)
        \* _generate_cookies_for_browser
        num_cookies(e) ==
            Bind(e, "num_cookies",
                 RandInt(e.st, Setting("min_cookies", 5), Setting("max_cookies", 12)))
        domain(e) ==
            Bind(e, "domain",
                 Choice(e.st, AtomicGet(cfgs, "websites", <<K("cookie_domains")>>,
                                        L(<<S(".example.com")>>)).l))
        days_ahead(e) ==
            Bind(e, "days_ahead",
                 RandInt(e.st,
                     AtomicGet(cfgs, "main", <<K("cookie_expiration"), K("min_days")>>,
                               N(30)).n,
                     AtomicGet(cfgs, "main", <<K("cookie_expiration"), K("max_days")>>,
                               N(365)).n))
        cookie_name(e) ==
            Bind(e, "cookie_name",
                 Choice(e.st, AtomicGet(cfgs, "websites", <<K("cookie_names")>>,
                                        L(<<S("SESSION_ID")>>)).l))
        cookie_value(e) ==
            Bind(e, "cookie_value",
                 Choices(e.st,
                         AtomicGet(cfgs, "charsets", <<K("cookie_value")>>,
                             S(AsciiUpper \o AsciiLower \o Digits \o <<"-", "_">>)).s,
                         Setting("cookie_value_length", 120)))
        cookie(e) ==
            Set(e, "cookies",
                Append(e.cookies, [domain |-> e.domain, days_ahead |-> e.days_ahead,
                                   name |-> e.cookie_name, value |-> e.cookie_value]))
        Cookie(e, i) == cookie(cookie_value(cookie_name(days_ahead(domain(e)))))
        Counted(e) == ForEach(Cookie, range(e.num_cookies), Set(e, "cookies", << >>))
        \* cookie_files[f"{browser}.txt"] = ...: a later browser of the same
        \* name replaces the file
        file(e, browser) == Set(e, "cookie_files", (browser :> e.cookies) @@ e.cookie_files)
        File(e, browser) == file(Counted(num_cookies(e)), browser)
        Result(e) == [v |-> e.cookie_files, st |-> e.st]
    IN Result(ForEach(File,
                      Browsers(AtomicGet(cfgs, "browsers", <<K("profiles")>>, None).d),
                      [st |-> Seed(st, get_persona_seed(persona.persona_id, Tag.cookies)),
                       cookie_files |-> << >>]))

(***************************************************************************)
(* Lumma: HardwareGenerator and NetworkGenerator.                          *)
(***************************************************************************)
\* random.random() > num / den
RandomAbove(st, num, den) == [Random(st) EXCEPT !.v = @ * den > num * RandomDen]

\* HardwareGenerator.generate_hwid: no seed of its own
generate_hwid(cfgs, st) ==
    Choices(st,
            PlainGet(cfgs, "charsets", <<K("hwid")>>, S(AsciiUpper \o Digits)).s,
            PlainGet(cfgs, "main", <<K("generator_settings"), K("hwid_length")>>, N(16)).n)

\* HardwareGenerator.generate
LummaHardwareGenerator(cfgs, persona, st) ==
    LET \* the pools of the persona's device type and income level, else those
        \* of Personal_Laptop / Medium
        Config(own) ==
            IF own = None
            THEN PlainGet(cfgs, "hardware", <<K("Personal_Laptop"), K("Medium")>>, None)
            ELSE own
        hardware_config(e) ==
            Set(e, "hardware_config",
                Config(PlainGet(cfgs, "hardware",
                           <<K(persona.device_type), K(persona.income_level)>>, None)).d)
        cpu(e) == Bind(e, "cpu", Choice(e.st, e.hardware_config["cpu"].l))
        gpu(e) == Bind(e, "gpu", Choice(e.st, e.hardware_config["gpu"].l))
        ram(e) == Bind(e, "ram", Choice(e.st, e.hardware_config["ram"].l))
        resolution(e) ==
            Bind(e, "resolution", Choice(e.st, e.hardware_config["resolution"].l))
        Result(e) == [v |-> [cpu |-> e.cpu, gpu |-> e.gpu, ram |-> e.ram,
                             resolution |-> e.resolution],
                      st |-> e.st]
    IN Result(resolution(ram(gpu(cpu(hardware_config(
           [st |-> Seed(st, get_persona_seed(persona.persona_id, Tag.hardware))]))))))

\* NetworkGenerator.generate_ip_for_country; a prefix string is kept as the
\* sequence of its dot-separated parts
generate_ip_for_country(cfgs, country, st) ==
    LET octet == Range(1, 254)
        fallback == Range(1, 255)
        Fallback == RandInts(st, <<fallback, fallback, fallback, fallback>>)
        Prefixed(prefix) ==
            IF prefix.t = "str" /\ Len(prefix.s) = 3 THEN RandInts(st, <<octet>>)
            ELSE IF prefix.t = "str" /\ Len(prefix.s) = 2
            THEN RandInts(st, <<octet, octet>>)
            ELSE IF prefix.t = "dict"
            THEN RandInts(st, <<Range(prefix.d["start"].n, prefix.d["end"].n),
                                octet, octet, octet>>)
            ELSE Fallback
        Drawn(ip_ranges) ==
            IF country \in DOMAIN ip_ranges THEN Prefixed(ip_ranges[country])
            ELSE Fallback
    IN Drawn(PlainGet(cfgs, "network", <<K("country_ip_ranges")>>, None).d)

(***************************************************************************)
(* Lumma: SystemInfoGenerator.generate (System.txt).  It seeds with        *)
(* 'system' and then calls the hardware generator, which seeds again.      *)
(* Dates are kept as the drawn day offsets, hashes as the drawn fraction.  *)
(***************************************************************************)
LummaSystemInfoGenerator(cfgs, persona, st) ==
    LET \* _generate_execution_path
        Formatted(e) == Set(e, "execution_path", <<e.pick, e.numbers>>)
        pick(e) == Bind(e, "pick", RandBelow(e.st, 4))
        numbers(e) ==
            Bind(e, "numbers", RandInts(e.st, <<Range(10000, 99999), Range(10000, 99999),
                                                Range(100000, 999999)>>))
        Path(e, paths) == IF paths # << >> THEN Bind(e, "execution_path", Choice(e.st, paths))
                          ELSE Formatted(pick(numbers(e)))
        Header(e, headers) ==
            Bind(e, "header_lines", IF headers # << >> THEN Choice(e.st, headers)
                                    ELSE RandBelow(e.st, 3))
        \* the thread counts offered for the CPU names used here
        Threads(cpu) == CASE cpu = S("Intel Core i7-12700K") -> <<8, 12, 16>>
                          [] cpu = S("Intel Core i5-1135G7") -> <<6, 8, 12>>
                          [] cpu = S("AMD Ryzen 5 5600X") -> <<6, 12>>
                          [] OTHER -> <<4>>
        Counted(e, threads) == IF Len(threads) > 1
                               THEN Bind(e, "cpu_threads", Choice(e.st, threads))
                               ELSE Set(e, "cpu_threads", 4)
        Message(e, name, messages) ==
            Bind(e, name, IF messages # << >> THEN Choice(e.st, messages)
                          ELSE RandBelow(e.st, 2))
        \* the statements of generate, by the variable each one sets
        Statement(e, name) ==
            CASE name = "hardware" ->
                     Bind(e, name, LummaHardwareGenerator(cfgs, persona, e.st))
              [] name = "computer_id" ->
                     Bind(e, name,
                          Choices(e.st,
                              PlainGet(cfgs, "charsets", <<K("computer_id")>>,
                                       S(AsciiUpper \o Digits)).s,
                              PlainGet(cfgs, "main",
                                       <<K("generator_settings"), K("computer_id_length")>>,
                                       N(8)).n))
              [] name = "hwid" -> Bind(e, name, generate_hwid(cfgs, e.st))
              [] name = "ip" ->
                     Bind(e, name, generate_ip_for_country(cfgs, persona.country, e.st))
              [] name = "belgian" ->
                     IF persona.country = "ES" THEN Bind(e, name, RandomAbove(e.st, 1, 2))
                     ELSE Set(e, name, FALSE)
              [] name = "execution_path" ->
                     Path(e, PlainGet(cfgs, "main", <<K("execution_paths")>>, L(<< >>)).l)
              [] name = "lid" ->
                     Bind(e, name,
                          Choice(e.st, PlainGet(cfgs, "main", <<K("lumma_campaigns")>>,
                                                L(<<S("default--CAMPAIGN")>>)).l))
              [] name = "header_lines" ->
                     Header(e, PlainGet(cfgs, "main", <<K("buy_headers")>>, L(<< >>)).l)
              [] name = "build_date" ->
                     Bind(e, name,
                          Choice(e.st, PlainGet(cfgs, "main", <<K("build_dates")>>,
                                                L(<<S("Jan 01 2024")>>)).l))
              \* _get_windows_version, _generate_install_date
              [] name = "edition" ->
                     Bind(e, name, Choice(e.st, <<"Pro", "Home", "Enterprise">>))
              [] name = "install_days" ->
                     Bind(e, name,
                          RandInts(e.st, <<PlainGet(cfgs, "ranges", <<K("install_date_days")>>,
                                                    Range(180, 1095))>>))
              [] name = "sig_hash" -> Bind(e, name, Random(e.st))
              [] name = "elevated" -> Bind(e, name, RandomAbove(e.st, 7, 10))
              [] name = "config_hash" -> Bind(e, name, Random(e.st))
              [] name = "cpu_threads" -> Counted(e, Threads(e.hardware.cpu))
              [] name = "msg_set" ->
                     Message(e, name, PlainGet(cfgs, "main", <<K("marketing_messages")>>,
                                               L(<< >>)).l)
              [] name = "more" -> Bind(e, name, RandomAbove(e.st, 1, 2))
              [] name = "extra" ->
                     IF ~e.more THEN Set(e, name, None)
                     ELSE Message(e, name,
                                  PlainGet(cfgs, "main", <<K("additional_marketing")>>,
                                           L(<< >>)).l)
        Result(e) ==
            [v |-> [hardware |-> e.hardware, computer_id |-> e.computer_id,
                    hwid |-> e.hwid, ip |-> e.ip, path |-> e.execution_path,
                    lid |-> e.lid, header |-> e.header_lines,
                    build_date |-> e.build_date, edition |-> e.edition,
                    install_days |-> e.install_days, sig_hash |-> e.sig_hash,
                    elevated |-> e.elevated, config_hash |-> e.config_hash,
                    cpu_threads |-> e.cpu_threads, marketing |-> e.msg_set,
                    additional |-> e.extra],
             st |-> e.st]
    IN Result(ForEach(Statement,
                  <<"hardware", "computer_id", "hwid", "ip", "belgian", "execution_path",
                    "lid", "header_lines", "build_date", "edition", "install_days",
                    "sig_hash", "elevated", "config_hash", "cpu_threads", "msg_set",
                    "more", "extra">>,
                  [st |-> Seed(st, get_persona_seed(persona.persona_id, Tag.system))]))

(***************************************************************************)
(* Lumma: BrowserDataGenerator.generate_browser_structure (no seed of its  *)
(* own) and SystemFilesGenerator.generate_debug_txt (seeded from the       *)
(* generator's own next value).                                            *)
(***************************************************************************)
generate_browser_structure(cfgs, persona, st) ==
    LET Named(browsers) == IF browsers = << >> THEN <<"Chrome">> ELSE browsers
        heavy == persona.social_media_user = "Heavy" \/ persona.online_shopper = "Heavy"
        num_profiles(e, max_profiles) ==
            IF heavy THEN Bind(e, "num_profiles", RandInt(e.st, 2, max_profiles))
            ELSE Set(e, "num_profiles", 1)
        profiles(e) ==
            Set(e, "profiles",
                <<Tag.Default>>
                \o [j \in 1..(e.num_profiles - 1) |-> Tag.Profile \o <<Digits[j + 1]>>])
        \* structure[browser] = profiles: a repeated browser keeps its place
        \* and takes the later profiles
        Put(structure, browser, value) ==
            IF \E i \in DOMAIN structure : structure[i].browser = browser
            THEN [i \in DOMAIN structure |->
                     IF structure[i].browser = browser
                     THEN [browser |-> browser, profiles |-> value] ELSE structure[i]]
            ELSE Append(structure, [browser |-> browser, profiles |-> value])
        entry(e, browser) == Set(e, "structure", Put(e.structure, browser, e.profiles))
        Browser(e, browser) ==
            entry(profiles(num_profiles(e,
                      PlainGet(cfgs, "main",
                          <<K("generator_settings"), K("max_browser_profiles")>>, N(4)).n)),
                  browser)
        Result(e) == [v |-> e.structure, st |-> e.st]
    IN Result(ForEach(Browser,
                  Named(SelectSeq(<<persona.primary_browser, persona.secondary_browser>>,
                                  LAMBDA b : b # "" /\ b # "None")),
                  [st |-> st, structure |-> << >>]))

generate_debug_txt(cfgs, st) ==
    LET with_optional(e) == Bind(e, "with_optional", RandomAbove(e.st, 1, 2))
        Chosen(e, optional_codes) ==
            Set(e, "optional", IF e.with_optional THEN optional_codes ELSE << >>)
        Optional(e, optional_codes) ==
            IF optional_codes # << >> THEN Chosen(with_optional(e), optional_codes)
            ELSE Set(e, "optional", << >>)
        optional(e) ==
            Optional(e, PlainGet(cfgs, "main", <<K("debug_optional_codes")>>, L(<< >>)).l)
        values(e) ==
            Bind(e, "values", RandInts(e.st, <<Range(1000, 5000), Range(10000, 4000000)>>))
        repeat(e) == Bind(e, "repeat", RandomAbove(e.st, 1, 2))
        Body(e, codes) ==
            e.optional \o SubSeq(codes, 2, Len(codes) - 1)
            \o <<[res |-> e.values[1]], [dat |-> e.values[2]]>>
        Lines(e, codes, body) ==
            <<codes[1]>> \o body \o <<codes[Len(codes)]>>
            \o (IF e.repeat THEN body \o <<codes[Len(codes)]>> ELSE << >>)
        Result(e, codes) == [v |-> Lines(e, codes, Body(e, codes)), st |-> e.st]
    IN Result(repeat(values(optional([st |-> SeedFromRandom(st)]))),
              PlainGet(cfgs, "main", <<K("debug_codes")>>, L(<<S("reg"), S("fin")>>)).l)

(***************************************************************************)
(* Lumma: BrowserDataGenerator.  A password pattern is the sequence of its *)
(* placeholders and literal pieces.                                        *)
(***************************************************************************)
\* BrowserDataGenerator._generate_password_for_persona
generate_password_for_persona(cfgs, persona, st) ==
    LET Patterns(configured) == IF configured = << >>
                                THEN <<S(<<"{first_name}", "{year}", "!">>)>>
                                ELSE configured
        pattern(e) ==
            Bind(e, "pattern",
                 Choice(e.st, Patterns(PlainGet(cfgs, "passwords",
                                           <<K(persona.password_habits)>>, L(<< >>)).l)))
        year(e) == Bind(e, "year", RandInt(e.st, 2020, 2024))
        number(e) == Bind(e, "number", RandInt(e.st, 100, 999))
        length(e) == Bind(e, "length", RandInt(e.st, 12, 20))
        Drawn(e) ==
            Bind(e, "random_part",
                 Choices(e.st,
                     PlainGet(cfgs, "charsets", <<K("password_random")>>,
                              S(AsciiUpper \o AsciiLower \o Digits
                                \o <<"!", "@", "#", "$", "%">>)).s,
                     e.length))
        random_part(e) ==
            IF \E i \in DOMAIN e.pattern.s : e.pattern.s[i] = "{random}"
            THEN Drawn(length(e)) ELSE e
        Fill(e, piece) == CASE piece = "{first_name}" -> persona.first_name
                            [] piece = "{last_name}" -> persona.last_name
                            [] piece = "{year}" -> e.year
                            [] piece = "{number}" -> e.number
                            [] piece = "{random}" -> e.random_part
                            [] OTHER -> piece
        Result(e) == [v |-> [i \in DOMAIN e.pattern.s |-> Fill(e, e.pattern.s[i])],
                      st |-> e.st]
    IN Result(random_part(number(year(pattern([st |-> st])))))

\* BrowserDataGenerator._get_sites_for_persona
get_sites_for_persona(cfgs, persona) ==
    PlainGet(cfgs, "websites", <<K("common_sites")>>, L(<< >>)).l
    \o PlainGet(cfgs, "websites", <<K("archetype_sites"), K(persona.persona_archetype)>>,
                L(<< >>)).l

\* BrowserDataGenerator.generate_passwords
LummaPasswords(cfgs, persona, browser, profile, st) ==
    LET Count(password_ranges) ==
            IF persona.password_habits = "Browser_Storage"
            THEN password_ranges["browser_storage"] ELSE password_ranges["default"]
        num_passwords(e) ==
            Bind(e, "num_passwords",
                 RandInts(e.st, <<Count(PlainGet(cfgs, "ranges", <<K("password_count")>>,
                                                 None).d)>>))
        Versions(browser_versions) ==
            IF browser \in DOMAIN browser_versions
            THEN browser_versions[browser].l ELSE <<S("130.0.0.0")>>
        version(e) ==
            Bind(e, "version",
                 Choice(e.st, Versions(PlainGet(cfgs, "browsers", <<K("versions")>>,
                                                D(<< >>)).d)))
        site(e) == Bind(e, "site", Choice(e.st, get_sites_for_persona(cfgs, persona)))
        \* _generate_username_for_site
        by_email(e) == Bind(e, "by_email", RandomAbove(e.st, 1, 2))
        suffix(e) == Bind(e, "suffix", RandInt(e.st, 100, 999))
        Named(e) == Set(e, "username", <<persona.first_name, e.suffix>>)
        username(e) == IF e.by_email /\ persona.email_personal # ""
                       THEN Set(e, "username", persona.email_personal)
                       ELSE Named(suffix(e))
        password(e) ==
            Bind(e, "password", generate_password_for_persona(cfgs, persona, e.st))
        entry(e) ==
            Set(e, "entries",
                Append(e.entries, [browser |-> browser, profile |-> profile,
                                   version |-> e.version, site |-> e.site,
                                   username |-> e.username, password |-> e.password]))
        Entry(e, i) == entry(password(username(by_email(site(e)))))
        Counted(e) == ForEach(Entry, range(e.num_passwords[1]), e)
        Result(e) == [v |-> e.entries, st |-> e.st]
    IN Result(Counted(version(num_passwords(
           [st |-> Seed(st, get_persona_seed(persona.persona_id,
                       Tag.passwords \o <<"_">> \o Tag[browser] \o <<"_">> \o profile)),
            entries |-> << >>]))))

\* BrowserDataGenerator.generate_autofills: the number of entries of each
\* kind it emits (70% form fields, 25% search queries, 5% passwords of the
\* drawn num_entries); the entries' values are not modelled.  The generator
\* state it leaves is always replaced by the seed of generate_history.
LummaAutofills(cfgs, persona, st) ==
    LET Entries(num_entries, queries) ==
            [num_entries |-> num_entries,
             entries |-> [i \in 1..((num_entries * 7) \div 10) |-> "form"]
                         \o [i \in 1..Min(Len(queries), num_entries \div 4) |-> "q"]
                         \o [i \in 1..(num_entries \div 20) |-> "password"]]
    IN Entries(RandInts(Seed(st, get_persona_seed(persona.persona_id, Tag.autofills)),
                        <<PlainGet(cfgs, "ranges", <<K("autofill_count")>>,
                                   Range(50, 100))>>).v[1],
               PlainGet(cfgs, "browsers", <<K("search_queries"), K("base")>>, L(<< >>)).l
               \o PlainGet(cfgs, "browsers",
                           <<K("search_queries"), K(persona.persona_archetype)>>,
                           L(<< >>)).l)

\* BrowserDataGenerator.generate_cookies: one cookie for each of the first
\* num_cookies sites
LummaCookies(cfgs, persona, sites, st) ==
    LET num_cookies(e) ==
            Bind(e, "num_cookies",
                 RandInts(e.st, <<PlainGet(cfgs, "ranges", <<K("cookie_count")>>,
                                           Range(50, 100))>>))
        expiry_days(e) ==
            Bind(e, "expiry_days",
                 RandInts(e.st, <<PlainGet(cfgs, "ranges", <<K("cookie_expiry_days")>>,
                                           Range(30, 365))>>))
        \* _generate_auth_token
        part_len(e) ==
            Bind(e, "part_len", RandInt(e.st, e.token_config["min_length"].n,
                                        e.token_config["max_length"].n))
        part(e) ==
            Bind(e, "part",
                 Choices(e.st,
                     PlainGet(cfgs, "charsets", <<K("auth_token")>>,
                              S(AsciiUpper \o AsciiLower \o Digits \o <<"-", "_">>)).s,
                     e.part_len))
        joined(e) == Set(e, "value", e.value \o e.part)
        Part(e, i) == joined(part(part_len(e)))
        \* the sites used here whose name contains 'google' or 'facebook'
        auth_sites == {S("google.com"), S("facebook.com")}
        value(e, site) ==
            IF site \in auth_sites
            THEN ForEach(Part, range(e.token_config["parts"].n), Set(e, "value", << >>))
            ELSE Bind(e, "value",
                      Choices(e.st, Digits \o SubSeq(AsciiLower, 1, 6), 8 + 4 + 4 + 12))
        cookie_name(e) ==
            Bind(e, "cookie_name",
                 Choice(e.st, PlainGet(cfgs, "browsers", <<K("cookie_names")>>,
                                L(<<S("session_id"), S("auth_token"), S("user_id")>>)).l))
        cookie(e, site) ==
            Set(e, "cookies",
                Append(e.cookies, [domain |-> site, expiry_days |-> e.expiry_days[1],
                                   name |-> e.cookie_name, value |-> e.value]))
        Cookie(e, site) == cookie(cookie_name(value(expiry_days(e), site)), site)
        Taken(e) == ForEach(Cookie, SubSeq(sites, 1, Min(e.num_cookies[1], Len(sites))), e)
        Result(e) == [v |-> [num_cookies |-> e.num_cookies[1], cookies |-> e.cookies],
                      st |-> e.st]
    IN Result(Taken(num_cookies(
           [st |-> Seed(st, get_persona_seed(persona.persona_id, Tag.cookies)),
            cookies |-> << >>,
            token_config |-> PlainGet(cfgs, "browsers", <<K("auth_token")>>,
                                 D(("parts" :> N(4)) @@ ("min_length" :> N(20))
                                   @@ ("max_length" :> N(50)))).d])))

(***************************************************************************)
(* Lumma: SystemFilesGenerator.generate_clipboard and                      *)
(* generate_google_accounts, the last two users of the generator in a log. *)
(***************************************************************************)
generate_clipboard(cfgs, persona, st) ==
    LET Nothing(e) == [v |-> None, st |-> e.st]
        \* a malware file name
        filename(e, filenames) == Bind(e, "filename", Choice(e.st, filenames))
        file_id(e) == Bind(e, "file_id", Random(e.st))
        Named(e) == [v |-> [file |-> e.filename, file_id |-> e.file_id], st |-> e.st]
        File(e, filenames) ==
            IF filenames # << >> THEN Named(file_id(filename(e, filenames)))
            ELSE Nothing(e)
        \* a wallet address
        crypto(e) == IF persona.crypto_user # "None"
                     THEN Bind(e, "crypto", RandomAbove(e.st, 1, 2))
                     ELSE Set(e, "crypto", FALSE)
        bitcoin(e) == Bind(e, "bitcoin", RandomAbove(e.st, 1, 2))
        Address(e) ==
            IF e.bitcoin
            THEN Choices(e.st,
                     PlainGet(cfgs, "charsets", <<K("bitcoin")>>,
                         S(SubSeq(Digits, 2, 10)
                           \o SelectSeq(AsciiUpper, LAMBDA c : c \notin {"I", "O"})
                           \o SelectSeq(AsciiLower, LAMBDA c : c # "l"))).s, 33)
            ELSE Choices(e.st, Digits \o SubSeq(AsciiLower, 1, 6), 40)
        \* a password
        stored(e) == Bind(e, "stored", RandomAbove(e.st, 3, 10))
        Password(e) == IF e.stored THEN generate_password_for_persona(cfgs, persona, e.st)
                       ELSE Nothing(e)
        Other(e) == IF e.crypto THEN Address(bitcoin(e))
                    ELSE IF persona.password_habits = "Browser_Storage"
                    THEN Password(stored(e))
                    ELSE Nothing(e)
        Content(e) ==
            IF persona.infection_vector \in {"Cracked_Software", "Fake_Update"}
            THEN File(e, PlainGet(cfgs, "main", <<K("malware_filenames")>>,
                                  L(<<S("Setup_2024.zip"), S("Installer.zip")>>)).l)
            ELSE Other(crypto(e))
    IN Content([st |-> Seed(st, get_persona_seed(persona.persona_id, Tag.clipboard))])

generate_google_accounts(cfgs, persona, st) ==
    LET \* the addresses used here that contain 'gmail'
        gmail == {"ann@gmail.com"}
        token(e) ==
            Bind(e, "token",
                 Choices(e.st,
                     PlainGet(cfgs, "charsets", <<K("google_token")>>,
                              S(AsciiUpper \o AsciiLower \o Digits \o <<"-", "_">>)).s,
                     PlainGet(cfgs, "main",
                              <<K("generator_settings"), K("google_token_length")>>,
                              N(200)).n))
        account(e) == Set(e, "tokens", Append(e.tokens, e.token))
        second(e) == IF persona.business_access = "Yes" THEN account(token(e)) ELSE e
        Result(e) == [v |-> e.tokens, st |-> e.st]
    IN IF persona.email_personal \notin gmail /\ persona.email_work \notin gmail
       THEN [v |-> None, st |-> st]
       ELSE Result(second(account(token(
                [st |-> Seed(st, get_persona_seed(persona.persona_id, Tag.google)),
                 tokens |-> << >>]))))

\* the browser loop of generate_lumma_log: Debug.txt per browser, then
\* Passwords.txt, Autofills.txt, History.txt and Cookies_dev.txt per profile.
\* generate_history seeds with 'history' and its entries are not modelled:
\* generate_cookies, which always follows, seeds again.
LummaBrowsers(cfgs, persona, browser_profiles, st) ==
    LET passwords(e, browser, name) ==
            Bind(e, "passwords", LummaPasswords(cfgs, persona, browser, name, e.st))
        autofills(e) == Set(e, "autofills", LummaAutofills(cfgs, persona, e.st))
        history(e) ==
            Set(e, "st", Seed(e.st, get_persona_seed(persona.persona_id, Tag.history)))
        cookies(e) ==
            Bind(e, "cookies",
                 LummaCookies(cfgs, persona, get_sites_for_persona(cfgs, persona), e.st))
        profile(e, name) ==
            Set(e, "profiles",
                Append(e.profiles, [profile |-> name, passwords |-> e.passwords,
                                    autofills |-> e.autofills, cookies |-> e.cookies]))
        Profile(e, name) ==
            profile(cookies(history(autofills(passwords(e, e.browser, name)))), name)
        debug(e) == Bind(e, "debug", generate_debug_txt(cfgs, e.st))
        browser_dir(e) ==
            Set(e, "browsers",
                Append(e.browsers, [browser |-> e.browser, debug |-> e.debug,
                                    profiles |-> e.profiles]))
        Browser(e, entry) ==
            browser_dir(ForEach(Profile, entry.profiles,
                                Set(Set(debug(e), "browser", entry.browser),
                                    "profiles", << >>)))
        Result(e) == [v |-> e.browsers, st |-> e.st]
    IN Result(ForEach(Browser, browser_profiles, [st |-> st, browsers |-> << >>]))

\* all password entries of a log, in the order they were generated
RECURSIVE AllPasswords(_)
AllPasswords(browsers) ==
    IF browsers = << >> THEN << >>
    ELSE LET RECURSIVE Of(_)
             Of(profiles) == IF profiles = << >> THEN << >>
                             ELSE Head(profiles).passwords \o Of(Tail(profiles))
         IN Of(Head(browsers).profiles) \o AllPasswords(Tail(browsers))

(***************************************************************************)
(* RedLine: AdvancedContentGenerator.generate_filegrabber with             *)
(* should_include_filegrabber, _create_toolong_dir and _create_user_dir.   *)
(* The content is the file names created in each directory; raised tells   *)
(* whether the call ended in a ValueError.                                 *)
(***************************************************************************)
generate_filegrabber(cfgs, persona, st) ==
    LET Files(value, name) ==
            IF IsDict(value) /\ name \in DOMAIN value.d THEN value.d[name].l ELSE << >>
        \* name = <a call that may raise>: an exception ends the handler
        Try(e, name, r) == IF r.raised # "" THEN Set(e, "raised", r.raised)
                           ELSE Bind(e, name, r)
        \* num_files = random.randint(lo, min(cap, len(files)));
        \* random.sample(files, num_files)
        Sampled(e, name, files) ==
            IF e.raised # "" THEN e ELSE Try(e, name, Sample(e.st, files, e.num_files))
        Pick(e, name, files, lo, cap) ==
            Sampled(Try(e, "num_files", RandIntChecked(e.st, lo, Min(cap, Len(files)))),
                    name, files)
        \* should_include_filegrabber
        percent == IF persona.financial_value = "High" THEN 30
                   ELSE IF persona.crypto_user # "None" THEN 40
                   ELSE IF persona.business_access = "Yes" THEN 50
                   ELSE 80
        included(e) == Bind(e, "included", RandomAbove(e.st, percent, 100))
        include_toolong(e) == Bind(e, "include_toolong", RandomAbove(e.st, 3, 10))
        include_userdir(e) == Bind(e, "include_userdir", RandomAbove(e.st, 4, 10))
        \* _create_toolong_dir
        Created(e) == IF e.raised # "" THEN e ELSE Set(e, "toolong", e.toolong \o e.picked)
        Toolong(e, wanted, files, cap) ==
            IF e.include_toolong /\ wanted /\ files # << >> /\ e.raised = ""
            THEN Created(Pick(e, "picked", files, 1, cap))
            ELSE e
        crypto(e) ==
            Toolong(e, persona.crypto_user # "None",
                    RedlineGet(cfgs, "filegrabber", <<K("crypto_files")>>,
                               L(<<S("wallet.dat")>>)).l, 3)
        business(e) ==
            Toolong(e, persona.business_access = "Yes",
                    RedlineGet(cfgs, "filegrabber", <<K("business_files")>>,
                               L(<<S("passwords.xlsx")>>)).l, 4)
        generic(e) ==
            Toolong(e, TRUE,
                    RedlineGet(cfgs, "filegrabber", <<K("generic_files")>>,
                               L(<<S("passwords.txt")>>)).l, 3)
        \* _create_user_dir
        UserFiles(name) ==
            Files(RedlineGet(cfgs, "filegrabber",
                      <<K("archetype_files"), K(persona.persona_archetype)>>, D(<< >>)),
                  name)
            \o Files(RedlineGet(cfgs, "filegrabber", <<K("general_user_files")>>,
                         D(("desktop" :> L(<<S("notes.txt")>>))
                           @@ ("documents" :> L(<<S("resume.docx")>>)))),
                     name)
        Desktop(e, desktop_files) ==
            IF e.include_userdir /\ desktop_files # << >> /\ e.raised = ""
            THEN IF Len(desktop_files) >= 2 THEN Pick(e, "desktop", desktop_files, 2, 5)
                 ELSE Try(e, "desktop", Sample(e.st, desktop_files, Len(desktop_files)))
            ELSE e
        Documents(e, docs_files) ==
            IF e.include_userdir /\ docs_files # << >> /\ e.raised = ""
            THEN Pick(e, "documents", docs_files, 2, 6)
            ELSE e
        selected_desktop(e) == Desktop(e, UserFiles("desktop"))
        selected_docs(e) == Documents(e, UserFiles("documents"))
        Content(e) ==
            IF ~e.included THEN e
            ELSE selected_docs(selected_desktop(generic(business(crypto(
                     include_userdir(include_toolong(e)))))))
        Result(e) == [v |-> [included |-> e.included, toolong |-> e.toolong,
                             desktop |-> e.desktop, documents |-> e.documents,
                             raised |-> e.raised],
                      st |-> e.st]
    IN Result(Content(included(
           [st |-> Seed(st, get_persona_seed(persona.persona_id, Tag.filegrabber)),
            toolong |-> << >>, desktop |-> << >>, documents |-> << >>, raised |-> ""])))

(***************************************************************************)
(* The handlers that write one persona's log.  Each takes the loaded       *)
(* configuration, the persona and the state of the generator when it is    *)
(* called, and yields the content it writes and the state it leaves.       *)
(***************************************************************************)
\* AtomicLogGenerator.generate_atomic_log
generate_atomic_log(cfgs, persona, st) ==
    LET user_info(e) == Bind(e, "user_info", AtomicUserInfoGenerator(cfgs, persona, e.st))
        passwords(e) == Bind(e, "passwords", AtomicPasswordGenerator(cfgs, persona, e.st))
        brute(e) == Set(e, "brute", generate_brute(e.passwords))
        autofills(e) == Bind(e, "autofills", AtomicAutofillGenerator(cfgs, persona, e.st))
        tokens(e) == Bind(e, "tokens", AtomicTokenGenerator(cfgs, persona, e.st))
        keychain(e) == Bind(e, "keychain", AtomicKeychainGenerator(cfgs, persona, e.st))
        cookies(e) == Bind(e, "cookies", AtomicCookieGenerator(cfgs, persona, e.st))
        Result(e) ==
            [v |-> [user_info |-> e.user_info, passwords |-> e.passwords,
                    brute |-> e.brute, autofills |-> e.autofills, tokens |-> e.tokens,
                    keychain |-> e.keychain, cookies |-> e.cookies],
             st |-> e.st]
    IN Result(cookies(keychain(tokens(autofills(brute(passwords(user_info(
           [st |-> st]))))))))

\* LummaLogGenerator.generate_lumma_log.  Software.txt and Processes.txt are
\* seeded with their own purposes and are not modelled: generate_clipboard,
\* which always follows, seeds again.
generate_lumma_log(cfgs, persona, st) ==
    LET hwid(e) == Bind(e, "hwid", generate_hwid(cfgs, e.st))
        system(e) == Bind(e, "system", LummaSystemInfoGenerator(cfgs, persona, e.st))
        browser_profiles(e) ==
            Bind(e, "browser_profiles", generate_browser_structure(cfgs, persona, e.st))
        browsers(e) ==
            Bind(e, "browsers", LummaBrowsers(cfgs, persona, e.browser_profiles, e.st))
        all_passwords(e) == Set(e, "all_passwords", AllPasswords(e.browsers))
        clipboard(e) == Bind(e, "clipboard", generate_clipboard(cfgs, persona, e.st))
        google_tokens(e) ==
            Bind(e, "google_tokens", generate_google_accounts(cfgs, persona, e.st))
        Result(e) ==
            [v |-> [log_dir |-> <<persona.persona_id, e.hwid>>, system |-> e.system,
                    browsers |-> e.browsers, passwords |-> e.all_passwords,
                    brute |-> [i \in DOMAIN e.all_passwords |-> e.all_passwords[i].password],
                    clipboard |-> e.clipboard, google_accounts |-> e.google_tokens],
             st |-> e.st]
    IN Result(google_tokens(clipboard(all_passwords(browsers(browser_profiles(system(
           hwid([st |-> st]))))))))

(***************************************************************************)
(* The five scripts as one state machine.  A process runs one script; it   *)
(* starts with the configuration it loaded and with the generator of       *)
(* module random seeded from operating-system entropy.  last and ref keep  *)
(* what two generate_*_log calls produced, so that properties relating two *)
(* runs can be stated over a single state.                                 *)
(***************************************************************************)
\* states the generator can be in when the interpreter starts
EntropyStates == { Seeded(1009 * e + 77) : e \in 1..EntropySeeds }

\* the state of a process of script fam before its first generate_*_log call
InitOf(fam) ==
    /\ family = fam
    /\ configs \in Configs(fam)
    /\ rng \in EntropyStates
    /\ last = None
    /\ ref = None
    /\ query = [config_name |-> "main", keys |-> << >>, has_default |-> FALSE]
    /\ answer = NotAsked

\* bookkeeping shared by the generate_*_log actions: the call's product
\* becomes last (with the persona, the configuration and the generator state
\* the call started from), and the previous product may be kept as ref
Produced(persona, out, st, keep) ==
    /\ last' = [family |-> family, persona |-> persona, configs |-> configs,
                entry |-> rng, out |-> out]
    /\ ref' = IF keep /\ last # None THEN last ELSE ref
    /\ rng' = st
    /\ UNCHANGED <<family, configs, query, answer>>

\* AtomicLogGenerator.generate_all_atomic_logs: one pass of its loop
AtomicLog(persona, keep) ==
    /\ family = "atomic"
    /\ \E log \in {generate_atomic_log(configs, persona, rng)} :
           Produced(persona, log.v, log.st, keep)

\* LummaLogGenerator.generate_all_lumma_logs: one pass of its loop
LummaLog(persona, keep) ==
    /\ family = "lumma"
    /\ \E log \in {generate_lumma_log(configs, persona, rng)} :
           Produced(persona, log.v, log.st, keep)

\* AdvancedContentGenerator.generate_filegrabber(persona, log_dir), the
\* step of RedLine's generate_redline_log that fills the Filegrabber
\* directory
RedlineFilegrabber(persona, keep) ==
    /\ family = "redline"
    /\ \E fg \in {generate_filegrabber(configs, persona, rng)} :
           Produced(persona, fg.v, fg.st, keep)

\* a new run of the script: a new interpreter, the configuration directory
\* read again (possibly edited in between)
Restart ==
    /\ configs' \in Configs(family)
    /\ rng' \in EntropyStates
    /\ UNCHANGED <<family, last, ref, query, answer>>

InitAtomic == InitOf("atomic")

NextAtomic ==
    \/ \E persona \in Personas, keep \in BOOLEAN : AtomicLog(persona, keep)
    \/ Restart

\* the Atomic script
SpecAtomic == InitAtomic /\ [][NextAtomic]_vars

InitLumma == InitOf("lumma")

NextLumma ==
    \/ \E persona \in Personas, keep \in BOOLEAN : LummaLog(persona, keep)
    \/ Restart

\* the Lumma script
SpecLumma == InitLumma /\ [][NextLumma]_vars

InitRedline == InitOf("redline")

NextRedline ==
    \/ \E persona \in Personas, keep \in BOOLEAN : RedlineFilegrabber(persona, keep)
    \/ Restart

\* the RedLine script
SpecRedline == InitRedline /\ [][NextRedline]_vars

(***************************************************************************)
(* Properties of the generators.                                           *)
(***************************************************************************)
\* ref and last are two runs of generate_*_log of script fam for the same
\* persona
TwoRuns(fam) ==
    /\ ref # None /\ last # None
    /\ ref.family = fam /\ last.family = fam
    /\ ref.persona = last.persona

\* C1: the draws made after seeding with get_persona_seed(id, purpose) are
\* the same in every run, whatever was generated before: two runs of Atomic's
\* generate_atomic_log for the same persona under the same configuration
\* produce the same Passwords.txt entries, wherever the generator stood when
\* each run began.
C1_SeededDrawsRepeat ==
    (TwoRuns("atomic") /\ ref.configs = last.configs)
    => ref.out.passwords = last.out.passwords

\* two Atomic runs for one persona that began in different generator states
\* (another persona's leftovers, or another process start)
C1_Witness ==
    /\ TwoRuns("atomic") /\ ref.configs = last.configs
    /\ ref.entry # last.entry
    /\ ref.entry.seed \notin {e.seed : e \in EntropyStates}
    /\ Len(last.out.passwords) >= 2

\* the password pool configured for the habit of the persona of run r
HabitPool(r) == r.configs["passwords"].d[r.persona.password_habits].l

WithoutHardware(cfgs) ==
    [cfgs EXCEPT !["hardware"] = None,
                 !["ranges"].d["hardware_uuid"] = None,
                 !["main"].d["generator_settings"].d["serial_number_length"] = None]

\* C3: changing only the configuration consumed under the hardware purpose
\* never changes what Atomic's UserInfoGenerator.generate produces under
\* 'userinfo': the IP address and ip_suffix.
C3_UserInfoIndependentOfHardwareConfig ==
    (TwoRuns("atomic") /\ WithoutHardware(ref.configs) = WithoutHardware(last.configs))
    => /\ ref.out.user_info.ip = last.out.user_info.ip
       /\ ref.out.user_info.ip_suffix = last.out.user_info.ip_suffix

\* C2: every draw made while one persona's log is generated comes from a
\* generator state set from that persona's seed, so the log is a function of
\* persona and configuration alone: two runs of generate_lumma_log for the
\* same persona under the same configuration write the same log, output
\* directory name included.
C2_LogFunctionOfPersonaAndConfig ==
    (TwoRuns("lumma") /\ ref.configs = last.configs) => ref.out = last.out

\* C4: for a persona with the reuse habit, every password record of its log,
\* across all browsers and profiles, holds the identical password string.
C4_ReusePersonaSinglePassword ==
    (last # None /\ last.persona.password_habits = "Reuses_Passwords")
    => \A i, j \in DOMAIN last.out.passwords :
           last.out.passwords[i].password = last.out.passwords[j].password

\* n lies in the record-count range {min, max} read from configuration
InRange(n, bounds) == bounds.d["min"].n <= n /\ n <= bounds.d["max"].n

\* C6: for every record-count range read from configuration, the number of
\* records emitted for that class lies in the range: in every browser
\* profile of a Lumma log, the passwords, the autofill entries and the
\* cookies.
C6_RecordCountsWithinRange ==
    (last # None /\ last.family = "lumma")
    => LET ranges == last.configs["ranges"].d
           password_ranges == ranges["password_count"].d
       IN \A b \in DOMAIN last.out.browsers :
            \A p \in DOMAIN last.out.browsers[b].profiles :
              LET profile == last.out.browsers[b].profiles[p]
              IN /\ InRange(Len(profile.passwords),
                            IF last.persona.password_habits = "Browser_Storage"
                            THEN password_ranges["browser_storage"]
                            ELSE password_ranges["default"])
                 /\ InRange(Len(profile.autofills.entries), ranges["autofill_count"])
                 /\ InRange(Len(profile.cookies.cookies), ranges["cookie_count"])

\* C10: every call site of random.sample clamps the sample size to the pool
\* length and never passes inverted bounds to the draw of the size, so no
\* call of generate_filegrabber ends in a ValueError, whatever the sizes of
\* the configured file pools.
C10_SampleSizesClamped ==
    (last # None /\ last.family = "redline") => last.out.raised = ""

(***************************************************************************)
(* HardwareGenerator.generate of Atomic, Lumma, RedLine and StealC as a    *)
(* function of the loaded hardware domain, with the exceptions that its    *)
(* subscripts and random.choice raise.                                     *)
(***************************************************************************)
\* the items of the dict display that generate returns, in order: the field
\* of the record, the key read from hardware_config and whether the value
\* is drawn from it with random.choice
HardwareItems(fam) ==
    LET Item(field, key, drawn) == [field |-> field, key |-> key, drawn |-> drawn]
    IN CASE fam = "atomic" ->
              << Item("model_name", "model", FALSE), Item("model_id", "identifier", TRUE),
                 Item("chip", "chip", TRUE), Item("cores", "cores", TRUE),
                 Item("memory", "memory", TRUE), Item("display_res", "display", FALSE) >>
         [] fam = "stealc" ->
              << Item("cpu", "cpu", TRUE), Item("gpu", "gpu", TRUE),
                 Item("ram_mb", "ram_mb", TRUE), Item("resolution", "resolution", TRUE),
                 Item("cores", "cores", TRUE), Item("threads", "threads", TRUE) >>
         [] OTHER ->
              << Item("cpu", "cpu", TRUE), Item("gpu", "gpu", TRUE),
                 Item("ram", "ram", TRUE), Item("resolution", "resolution", TRUE) >>

\* RedLine: the dict used when the lookup gives nothing; its lists are also
\* the defaults of the four hardware_config.get calls
RedlineDefaultHardware ==
    D(("cpu" :> L(<<S("Intel(R) Core(TM) i5-10400 CPU @ 2.90GHz")>>))
      @@ ("gpu" :> L(<<S("Intel(R) UHD Graphics 630")>>))
      @@ ("ram" :> L(<<S("8192 MB")>>))
      @@ ("resolution" :> L(<<S("1920x1080x32")>>)))

\* `not v` for a value of the configuration tree (the strings of the trees
\* modelled here are not empty)
Falsy(v) ==
    CASE v.t = "none" -> TRUE
      [] v.t = "dict" -> DOMAIN v.d = {}
      [] v.t = "list" -> v.l = << >>
      [] v.t = "int" -> v.n = 0
      [] OTHER -> FALSE

\* the items of the dict display evaluated in order on e = [raised, v, st];
\* the first exception ends the evaluation
RECURSIVE HardwareDisplay(_, _, _, _)
HardwareDisplay(fam, hardware_config, items, e) ==
    IF items = << >> \/ e.raised # "" THEN e
    ELSE LET item == Head(items)
             \* hardware_config[key], or hardware_config.get(key, [...])
             found ==
                 IF ~IsDict(hardware_config) THEN [raised |-> "TypeError", v |-> None]
                 ELSE IF item.key \in DOMAIN hardware_config.d
                 THEN [raised |-> "", v |-> hardware_config.d[item.key]]
                 ELSE IF fam = "redline"
                 THEN [raised |-> "", v |-> RedlineDefaultHardware.d[item.key]]
                 ELSE [raised |-> "KeyError", v |-> None]
             Drawn(r) == [raised |-> "", v |-> e.v @@ (item.field :> r.v), st |-> r.st]
             value ==
                 IF found.raised # "" THEN [e EXCEPT !.raised = found.raised]
                 ELSE IF ~item.drawn
                 THEN [e EXCEPT !.v = @ @@ (item.field :> found.v)]
                 ELSE IF found.v.l = << >> THEN [e EXCEPT !.raised = "IndexError"]
                 ELSE Drawn(Choice(e.st, found.v.l))
         IN HardwareDisplay(fam, hardware_config, Tail(items), value)

\* the `if not hardware_config:` branch
Fallback(fam, cfgs, own) ==
    IF ~Falsy(own) THEN own
    ELSE IF fam = "redline" THEN RedlineDefaultHardware
    ELSE Get(fam, cfgs, "hardware", <<K("Personal_Laptop"), K("Medium")>>, None)

\* HardwareGenerator.generate(persona): [raised, v, st]; Atomic ends the
\* display with _generate_serial_number and _generate_hardware_uuid
HardwareGenerate(fam, cfgs, persona, st) ==
    LET hardware_config ==
            Fallback(fam, cfgs,
                     Get(fam, cfgs, "hardware",
                         <<K(persona.device_type), K(persona.income_level)>>, None))
        Serial(e) ==
            IF e.raised # "" \/ fam # "atomic" THEN e
            ELSE LET serial_num ==
                         Choices(e.st,
                                 AtomicGet(cfgs, "charsets", <<K("serial_number")>>,
                                           S(AsciiUpper \o Digits)).s,
                                 AtomicGet(cfgs, "main",
                                           <<K("generator_settings"),
                                             K("serial_number_length")>>, N(10)).n)
                     Uuid(r) == [raised |-> "",
                                 v |-> e.v @@ ("serial_num" :> S(serial_num.v))
                                           @@ ("hardware_uuid" :> L(r.v)),
                                 st |-> r.st]
                 IN Uuid(RandInts(serial_num.st,
                                  AtomicGet(cfgs, "ranges", <<K("hardware_uuid")>>, None).l))
    IN Serial(HardwareDisplay(fam, hardware_config, HardwareItems(fam),
                  [raised |-> "", v |-> << >>,
                   st |-> Seed(st, get_persona_seed(persona.persona_id, Tag.hardware))]))

\* the scripts that have a HardwareGenerator
HardwareFamilies == {"atomic", "lumma", "redline", "stealc"}

\* hardware domains a configuration directory can hold: the entry of
\* Gaming_Rig / High and the entry of Personal_Laptop / Medium are each
\* absent, complete with pools of one or two elements, or (the former) hold
\* the three pools cpu, gpu and ram only
HardwareDomains(fam) ==
    LET Pool(key, n) ==
            CASE key = "cpu" -> SubSeq(<<S("X"), S("X2")>>, 1, n)
              [] key = "gpu" -> SubSeq(<<S("Y"), S("Y2")>>, 1, n)
              [] key = "ram" -> SubSeq(<<S("32768"), S("16384")>>, 1, n)
              [] OTHER -> SubSeq(<<S(key), S("second")>>, 1, n)
        Value(item, n) == IF item.drawn THEN L(Pool(item.key, n)) ELSE S(item.key)
        Complete(n) ==
            D([key \in { HardwareItems(fam)[i].key : i \in DOMAIN HardwareItems(fam) } |->
                  Value(CHOOSE item \in { HardwareItems(fam)[i] :
                                           i \in DOMAIN HardwareItems(fam) } :
                            item.key = key, n)])
        Partial == D([key \in {"cpu", "gpu", "ram"} |-> L(Pool(key, 1))])
        Tier(device_type, income_level, entries) ==
            { << >> } \cup { device_type :> D(income_level :> entry) : entry \in entries }
    IN { D(own @@ default) :
           own \in Tier("Gaming_Rig", "High", {Complete(1), Complete(2), Partial}),
           default \in Tier("Personal_Laptop", "Medium", {Complete(1), Complete(2)}) }

(***************************************************************************)
(* Lists of the configuration reached through local variables.  A list     *)
(* variable is [l, at]: l the items of the list object it is bound to, at  *)
(* the path of that object in the configuration when the variable is bound *)
(* to a list held by ConfigurationManager.configs, << >> when the object   *)
(* is the handler's own.  A handler's locals e carry the configuration as  *)
(* e.cfgs, so that a change of a list in place reaches the configuration.  *)
(***************************************************************************)
\* self.config.get(config_name, *keys, default=[]): the stored list object
\* itself, or the list given as default
ListRef(fam, cfgs, config_name, keys, default) ==
    LET value == Get(fam, cfgs, config_name, [i \in DOMAIN keys |-> K(keys[i])], None)
    IN IF value = None THEN [l |-> default, at |-> << >>]
       ELSE [l |-> value.l, at |-> <<config_name>> \o keys]

\* binding the name to the list object itself, with no copy made
ListAlias(r) == r

\* list.copy(): a new list object with the same items
ListCopy(r) == [r EXCEPT !.at = << >>]

\* the tree d (keys to values) with the list at path replaced by l
RECURSIVE TreeWith(_, _, _)
TreeWith(d, path, l) ==
    [d EXCEPT ![path[1]] = IF Len(path) = 1 THEN L(l)
                           ELSE D(TreeWith(@.d, Tail(path), l))]

\* a change in place (append, extend, sort, shuffle) of the list object
\* bound to name: its items become l
InPlace(e, name, l) ==
    [e EXCEPT ![name].l = l,
              !.cfgs = IF e[name].at = << >> THEN @ ELSE TreeWith(@, e[name].at, l)]

\* random.shuffle(x): for i in reversed(range(1, len(x))), swap x[i] with
\* x[randbelow(i + 1)]; called with i = len(x) - 1
RECURSIVE Shuffle(_, _, _)
Shuffle(st, x, i) ==
    IF i < 1 THEN [v |-> x, st |-> st]
    ELSE LET Swapped(r) ==
                 Shuffle(r.st, [x EXCEPT ![i + 1] = x[r.v + 1], ![r.v + 1] = x[i + 1]],
                         i - 1)
         IN Swapped(RandBelow(st, i + 1))

\* Lumma: SystemFilesGenerator.generate_software_txt: [v, st, cfgs], v the
\* list returned and cfgs the configuration as the call leaves it
generate_software_txt(cfgs, persona, st) ==
    LET windows_base(e) == ListRef("lumma", e.cfgs, "software", <<"windows_base">>, << >>)
        software(e) == e @@ [software |-> ListCopy(windows_base(e))]
        Browser(e, browser) ==
            LET browser_software == PlainGet(e.cfgs, "software", <<K("browsers")>>,
                                             D(<< >>))
            IN IF browser \in DOMAIN browser_software.d
               THEN InPlace(e, "software",
                            Append(e.software.l, browser_software.d[browser]))
               ELSE e
        browsers(e) == Browser(Browser(e, persona.primary_browser),
                               persona.secondary_browser)
        archetype(e) ==
            InPlace(e, "software",
                    e.software.l
                    \o ListRef("lumma", e.cfgs, "software",
                               <<"archetype", persona.persona_archetype>>, << >>).l)
        common(e) ==
            LET common_software == ListRef("lumma", e.cfgs, "software", <<"common">>, << >>).l
                Added(r) == [InPlace(e, "software", e.software.l \o r.v)
                                EXCEPT !.st = r.st]
                Sampled(r) == Added(Sample(r.st, common_software,
                                           Min(r.v, Len(common_software))))
            IN IF common_software = << >> THEN e
               ELSE Sampled(RandInt(e.st, 2, 4))
        shuffled(e) ==
            LET windows_count == Len(windows_base(e).l)
                Joined(r) == [e EXCEPT !.st = r.st,
                                       !.software =
                                           [l |-> SubSeq(e.software.l, 1, windows_count)
                                                  \o r.v,
                                            at |-> << >>]]
            IN IF Len(e.software.l) > windows_count
               THEN Joined(Shuffle(e.st,
                                   SubSeq(e.software.l, windows_count + 1,
                                          Len(e.software.l)),
                                   Len(e.software.l) - windows_count - 1))
               ELSE e
        Result(e) ==
            [raised |-> "",
             v |-> SubSeq(e.software.l, 1,
                          Min(Len(e.software.l),
                              PlainGet(e.cfgs, "ranges", <<K("software_count"), K("max")>>,
                                       N(100)).n)),
             st |-> e.st, cfgs |-> e.cfgs]
    IN Result(shuffled(common(archetype(browsers(software(
           [cfgs |-> cfgs,
            st |-> Seed(st, get_persona_seed(persona.persona_id, Tag.software))]))))))

\* Lumma configuration directories with a software domain: the common
\* list has n_common items; the list lengths are capped when max is given
SoftwareConfigs ==
    { ("software" :> D(
          ("windows_base" :> L(<<S("Microsoft Edge"), S("Windows Update")>>))
          @@ ("browsers" :> D(("Chrome" :> S("Google Chrome"))
                              @@ ("Edge" :> S("Microsoft Edge"))))
          @@ ("archetype" :> D("Gamer" :> L(<<S("Steam")>>)))
          @@ ("common" :> L(SubSeq(<<S("7-Zip"), S("VLC"), S("Zoom")>>, 1, n_common)))))
      @@ ("ranges" :> D("software_count" :> D("max" :> N(max)))) :
        n_common \in {0, 2, 3}, max \in {4, 100} }

\* StealC: the reading loop of _load_windows_personas on the rows left,
\* with the personas appended so far
RECURSIVE ReadRows(_, _, _)
ReadRows(rows, stealc_personas, sample_size) ==
    IF rows = << >> THEN stealc_personas
    ELSE IF ~Selects("stealc", Head(rows))
    THEN ReadRows(Tail(rows), stealc_personas, sample_size)
    ELSE IF Len(stealc_personas) + 1 >= sample_size
    THEN Append(stealc_personas, Head(rows))
    ELSE ReadRows(Tail(rows), Append(stealc_personas, Head(rows)), sample_size)

\* StealC: _load_windows_personas(csv_file, exclude_ids, sample_size) on a
\* readable CSV file with an Infection column; exclude_ids is a set, empty
\* for None
load_windows_personas(rows, exclude_ids, sample_size) ==
    LET stealc_personas == ReadRows(rows, << >>, sample_size)
    IN IF exclude_ids # {} /\ stealc_personas # << >>
       THEN SelectSeq(stealc_personas, LAMBDA p : p.PersonaID \notin exclude_ids)
       ELSE stealc_personas

(***************************************************************************)
(* Brute.txt of Atomic and Lumma, on texts as sequences of characters.     *)
(***************************************************************************)
\* s.split(sep) for a one-character sep
RECURSIVE Split(_, _)
Split(s, sep) ==
    IF \A i \in DOMAIN s : s[i] # sep THEN <<s>>
    ELSE LET i == CHOOSE k \in DOMAIN s : s[k] = sep /\ \A j \in 1..(k - 1) : s[j] # sep
         IN <<SubSeq(s, 1, i - 1)>> \o Split(SubSeq(s, i + 1, Len(s)), sep)

\* sep.join(lines)
RECURSIVE Join(_, _)
Join(lines, sep) ==
    IF lines = << >> THEN << >>
    ELSE IF Len(lines) = 1 THEN lines[1]
    ELSE lines[1] \o sep \o Join(Tail(lines), sep)

\* Atomic: PasswordGenerator.generate from the entries on: each entry as
\* f"URL: {site}\nLOGIN: {login}\nPASSWORD: {password}", joined by newlines
PasswordsContent(entries) ==
    Join([i \in DOMAIN entries |->
             <<"U", "R", "L", ":", " ">> \o entries[i].url
             \o <<"\n", "L", "O", "G", "I", "N", ":", " ">> \o entries[i].login
             \o <<"\n", "P", "A", "S", "S", "W", "O", "R", "D", ":", " ">>
             \o entries[i].password],
         <<"\n">>)

\* Atomic: PasswordGenerator.generate_brute on the text of Passwords.txt
generate_brute_text(passwords_content) ==
    LET prefix == <<"P", "A", "S", "S", "W", "O", "R", "D", ":", " ">>
        password(line) == Strip(Replace(line, prefix, << >>))
        kept == SelectSeq(Split(passwords_content, "\n"),
                          LAMBDA line : StartsWith(line, prefix) /\ password(line) # << >>)
    IN Join([i \in DOMAIN kept |-> password(kept[i])], <<"\n">>)

\* Lumma: the password_entry template of a configuration directory, and
\* the entries BrowserDataGenerator.generate_passwords renders with it
PasswordEntryConfig ==
    "templates" :> D("password_entry" :> S(
        <<"U", "R", "L", ":", " ", "{", "site", "}", "\n",
          "U", "S", "E", "R", ":", " ", "{", "username", "}", "\n",
          "P", "A", "S", "S", ":", " ", "{", "password", "}", "\n", "\n">>))

\* Lumma: LummaLogGenerator._extract_brute_passwords(all_passwords)
extract_brute_passwords(all_passwords) ==
    LET prefix == <<"P", "A", "S", "S", ":", " ">>
        Passwords(pwd_entry) ==
            LET kept == SelectSeq(Split(Strip(pwd_entry), "\n"),
                                  LAMBDA line : StartsWith(line, prefix))
            IN [i \in DOMAIN kept |-> Replace(kept[i], prefix, << >>)]
        RECURSIVE Of(_)
        Of(entries) == IF entries = << >> THEN << >>
                       ELSE Passwords(Head(entries)) \o Of(Tail(entries))
    IN Join(Of(all_passwords), <<"\n">>)

\* the password file and Brute.txt a log gets for the generated entries:
\* Passwords.txt of Atomic, All Passwords.txt of Lumma
BruteFiles(fam, cfgs, entries) ==
    LET all_passwords ==
            [i \in DOMAIN entries |->
                render(fam, cfgs, "password_entry",
                       << [key |-> "browser", value |-> <<"Chrome">>],
                          [key |-> "profile", value |-> <<"Default">>],
                          [key |-> "version", value |-> <<"130.0.0.0">>],
                          [key |-> "site", value |-> entries[i].url],
                          [key |-> "username", value |-> entries[i].login],
                          [key |-> "password", value |-> entries[i].password] >>)]
    IN IF fam = "atomic"
       THEN [passwords |-> PasswordsContent(entries),
             brute |-> generate_brute_text(PasswordsContent(entries))]
       ELSE [passwords |-> Join(all_passwords, << >>),
             brute |-> extract_brute_passwords(all_passwords)]

(***************************************************************************)
(* StealC and Vidar: the cookie files of a log and its cookie_list.txt.    *)
(* Sites and domains are character sequences; a cookie line is the record  *)
(* of its tab-separated fields.                                            *)
(***************************************************************************)
\* the characters of site names, purposes and cookie lines by code point
Ascii ==
    <<"\t", "\n", " ", "-", ".">> \o Digits \o AsciiUpper \o <<"_">> \o AsciiLower

CodePoint(c) == CHOOSE i \in DOMAIN Ascii : Ascii[i] = c

\* a < b for two str
RECURSIVE StrLess(_, _)
StrLess(a, b) ==
    IF b = << >> THEN FALSE
    ELSE IF a = << >> THEN TRUE
    ELSE IF Head(a) = Head(b) THEN StrLess(Tail(a), Tail(b))
    ELSE CodePoint(Head(a)) < CodePoint(Head(b))

\* SortedSet(set(items)), the set given
RECURSIVE SortedSet(_)
SortedSet(items) ==
    IF items = {} THEN << >>
    ELSE LET least == CHOOSE x \in items : \A y \in items \ {x} : StrLess(x, y)
         IN <<least>> \o SortedSet(items \ {least})

\* the elements of a list of strings of the configuration
Strs(list) == [i \in DOMAIN list.l |-> list.l[i].s]

Elements(seq) == { seq[i] : i \in DOMAIN seq }

\* random.random() < num / den
RandomBelow(st, num, den) == [Random(st) EXCEPT !.v = @ * den < num * RandomDen]

\* StealC: BrowserDataGenerator._get_sites_for_persona
StealcSites(cfgs, persona) ==
    Strs(PlainGet(cfgs, "websites", <<K("common_sites")>>, L(<< >>)))
    \o Strs(PlainGet(cfgs, "websites",
                     <<K("archetype_sites"), K(persona.persona_archetype)>>, L(<< >>)))
    \o (IF persona.crypto_user # "None"
        THEN Strs(PlainGet(cfgs, "websites", <<K("crypto_sites")>>, L(<< >>)))
        ELSE << >>)
    \o (IF persona.financial_value = "High"
        THEN Strs(PlainGet(cfgs, "websites", <<K("banking_sites")>>, L(<< >>)))
        ELSE << >>)

\* StealC: BrowserDataGenerator._generate_cookie_value: [v, st]; an md5 or
\* base64 value is kept as the number it encodes
StealcCookieValue(cfgs, st) ==
    LET value_types == Strs(PlainGet(cfgs, "browsers", <<K("cookie_value_types")>>,
                                     L(<< >>)))
        letters == AsciiLower \o AsciiUpper
        Drawn(chars, length) == Choices(length.st, chars, length.v)
        Encoded(kind, r) == [r EXCEPT !.v = <<kind, @>>]
        OfType(value_type) ==
            CASE value_type.v = "alphanumeric" ->
                   Drawn(letters \o Digits, RandInt(value_type.st, 20, 60))
              [] value_type.v = "alphanumeric_special" ->
                   Drawn(letters \o Digits \o <<"-", "_">>,
                         RandInt(value_type.st, 30, 80))
              [] value_type.v = "md5" -> Encoded("md5", Random(value_type.st))
              [] value_type.v = "base64" -> Encoded("base64", Random(value_type.st))
              [] OTHER -> Choices(value_type.st, letters \o Digits, 40)
        Typed(default) ==
            IF default.v THEN Drawn(letters \o Digits, RandInt(default.st, 20, 60))
            ELSE OfType(Choice(default.st, value_types))
    IN IF value_types = << >>
       THEN Drawn(letters \o Digits, RandInt(st, 20, 60))
       ELSE Typed(RandomBelow(st, 25, 100))

\* StealC: BrowserDataGenerator._generate_cookie_data: [v, st], v the name
\* and the value.  The site-specific entries of the configurations used
\* here (at most one) give names only, no value_type.
StealcCookieData(cfgs, site, st) ==
    LET site_cookies == PlainGet(cfgs, "browsers", <<K("site_specific_cookies")>>,
                                 D(<< >>)).d
        matching == { pattern \in DOMAIN site_cookies : IsSubstring(pattern, site) }
        names == IF matching = {}
                 THEN Strs(PlainGet(cfgs, "browsers", <<K("default_cookie_names")>>,
                                    L(<<S("session_id"), S("auth_token")>>)))
                 ELSE Strs(site_cookies[CHOOSE pattern \in matching : TRUE].d["names"])
        Valued(name) == [StealcCookieValue(cfgs, name.st) EXCEPT !.v = <<name.v, @>>]
    IN Valued(Choice(st, names))

\* StealC: BrowserDataGenerator.generate_cookies: [v, st], v the cookie
\* lines and cookie_domains
StealcCookies(cfgs, persona, browser_profile, st) ==
    LET sites == StealcSites(cfgs, persona)
        cookie_range == PlainGet(cfgs, "ranges", <<K("cookie_count")>>,
                                 Range(50, 100)).d
        expiry_range == PlainGet(cfgs, "ranges", <<K("cookie_expiry_days")>>,
                                 Range(30, 730)).d
        num_cookies(e) ==
            Bind(e, "num_cookies",
                 RandInt(e.st, cookie_range["min"].n, cookie_range["max"].n))
        site(e) == Bind(e, "site", Choice(e.st, sites))
        domain(e) ==
            Set(e, "domain",
                IF ~StartsWith(e.site, <<".">>) THEN <<".">> \o e.site ELSE e.site)
        appended(e) == Set(e, "cookie_domains", Append(e.cookie_domains, e.domain))
        include_subdomains(e) ==
            Bind(e, "include_subdomains", RandomAbove(e.st, 2, 10))
        secure(e) ==
            IF IsSubstring(<<"h", "t", "t", "p", "s">>, e.site)
            THEN Set(e, "secure", TRUE)
            ELSE Bind(e, "secure", RandomAbove(e.st, 3, 10))
        expiry_days(e) ==
            Bind(e, "expiry_days",
                 RandInt(e.st, expiry_range["min"].n, expiry_range["max"].n))
        cookie_data(e) == Bind(e, "cookie_data", StealcCookieData(cfgs, e.site, e.st))
        special(e) ==
            IF e.site = <<"a", "c", "c", "o", "u", "n", "t", "s", ".",
                          "g", "o", "o", "g", "l", "e", ".", "c", "o", "m">>
            THEN Set(Set(e, "domain", e.site), "include_subdomains", FALSE)
            ELSE e
        cookie_line(e) ==
            Set(e, "cookies",
                Append(e.cookies,
                       [domain |-> e.domain, include_subdomains |-> e.include_subdomains,
                        secure |-> e.secure, expiry_days |-> e.expiry_days,
                        name |-> e.cookie_data[1], value |-> e.cookie_data[2]]))
        Cookie(e, i) ==
            cookie_line(special(cookie_data(expiry_days(secure(
                include_subdomains(appended(domain(site(e)))))))))
        Cookies(e) == ForEach(Cookie, range(e.num_cookies), e)
        Result(e) == [v |-> [cookies |-> e.cookies, cookie_domains |-> e.cookie_domains],
                      st |-> e.st]
    IN Result(Cookies(num_cookies(
           [st |-> Seed(st, get_persona_seed(persona.persona_id,
                                             Tag.cookies \o <<"_">> \o browser_profile)),
            cookies |-> << >>, cookie_domains |-> << >>])))

\* Vidar: VidarLogGenerator.get_sites_for_persona; none of the archetypes
\* of Personas properly contains one of the words looked for in it
VidarSites(cfgs, persona) ==
    LET sites_config == cfgs["sites"].d
    IN Strs(sites_config["common"])
       \o (IF persona.persona_archetype = "Gaming"
           THEN Strs(sites_config["gaming"]) ELSE << >>)
       \o (IF persona.persona_archetype = "Student"
           THEN Strs(sites_config["student"]) ELSE << >>)
       \o (IF persona.persona_archetype \in {"Remote_Worker", "Corporate"}
           THEN Strs(sites_config["corporate"]) ELSE << >>)
       \o (IF persona.crypto_user # "None"
           THEN Strs(sites_config["crypto"]) ELSE << >>)
       \o (IF persona.social_media_user = "Heavy"
           THEN Strs(sites_config["social_heavy"]) ELSE << >>)

\* Vidar: VidarLogGenerator.generate_cookie_value: [v, st]; the length of
\* the first form is drawn before its characters
VidarCookieValue(st) ==
    LET Drawn(length) == Choices(length.st, AsciiLower \o AsciiUpper \o Digits, length.v)
        Second(first) ==
            [RandInt(first.st, 100000, 999999) EXCEPT !.v = <<first.v, @>>]
        Form(value_type) ==
            CASE value_type.v = 1 -> Drawn(RandInt(value_type.st, 20, 40))
              [] value_type.v = 2 -> [Random(value_type.st) EXCEPT !.v = <<"md5", @>>]
              [] OTHER -> Second(RandInt(value_type.st, 100000, 999999))
    IN Form(Choice(st, <<1, 2, 3>>))

\* Vidar: VidarLogGenerator.generate_cookies: [v, st], v the cookie lines
\* and cookie_domains
VidarCookies(cfgs, persona, browser_profile, st) ==
    LET sites == VidarSites(cfgs, persona)
        www == <<"w", "w", "w", ".">>
        cookie_names == cfgs["cookie_names"].d
        num_cookies(e) == Bind(e, "num_cookies", RandInt(e.st, 40, 80))
        domain(e) == Bind(e, "domain", Choice(e.st, sites))
        prefixed(e) == Bind(e, "prefixed", RandomAbove(e.st, 5, 10))
        full_domain(e) ==
            Set(e, "full_domain",
                IF e.prefixed /\ ~StartsWith(e.domain, www)
                THEN www \o e.domain ELSE e.domain)
        appended(e) == Set(e, "cookie_domains", Append(e.cookie_domains, e.domain))
        include_subdomains(e) ==
            Bind(e, "include_subdomains", RandomAbove(e.st, 3, 10))
        secure(e) == Bind(e, "secure", RandomAbove(e.st, 3, 10))
        expiry_days(e) == Bind(e, "expiry_days", RandInt(e.st, 30, 730))
        names(e) ==
            Strs(IF IsSubstring(<<"g", "o", "o", "g", "l", "e">>, e.domain)
                 THEN cookie_names["google"]
                 ELSE IF IsSubstring(<<"f", "a", "c", "e", "b", "o", "o", "k">>, e.domain)
                 THEN cookie_names["facebook"]
                 ELSE IF IsSubstring(<<"c", "o", "u", "r", "s", "e", "h", "e", "r", "o">>,
                                     e.domain)
                 THEN cookie_names["coursehero"]
                 ELSE cookie_names["default"])
        name(e) == Bind(e, "name", Choice(e.st, names(e)))
        value(e) == Bind(e, "value", VidarCookieValue(e.st))
        cookie_line(e) ==
            Set(e, "cookies",
                Append(e.cookies,
                       [domain |-> IF StartsWith(e.domain, <<".">>)
                                   THEN e.domain ELSE e.full_domain,
                        include_subdomains |-> e.include_subdomains,
                        secure |-> e.secure, expiry_days |-> e.expiry_days,
                        name |-> e.name, value |-> e.value]))
        Cookie(e, i) ==
            cookie_line(value(name(expiry_days(secure(include_subdomains(
                appended(full_domain(prefixed(domain(e))))))))))
        Cookies(e) == ForEach(Cookie, range(e.num_cookies), e)
        Result(e) == [v |-> [cookies |-> e.cookies, cookie_domains |-> e.cookie_domains],
                      st |-> e.st]
    IN Result(Cookies(num_cookies(
           [st |-> Seed(st, vidar_get_persona_seed(persona.persona_id,
                                Tag.cookies \o <<"_">> \o browser_profile)),
            cookies |-> << >>, cookie_domains |-> << >>])))

\* the cookie statements of generate_stealc_log and of generate_vidar_log:
\* one cookie file per browser profile, then cookie_list.txt; [raised, v,
\* st], v the cookie files in the order written and the lines of the list.
\* A Vidar log with Internet Explorer among its profiles writes IE_Cookies
\* last, so the list's draws follow those of that call; the other
\* generators called in between seed the generator themselves.
CookieFiles(fam, cfgs, persona, browser_profiles, st) ==
    LET ie == <<"I", "E", "_">> \o Tag.Default
        Written(e, name, r) ==
            [e EXCEPT !.st = r.st,
                      !.files = Append(@, [name |-> name, cookies |-> r.v.cookies]),
                      !.all_cookie_domains = @ \o r.v.cookie_domains]
        Profile(e, p) ==
            IF fam = "stealc"
            THEN Written(e, p[1] \o <<"_">> \o Replace(p[2], <<" ">>, <<"_">>),
                         StealcCookies(cfgs, persona,
                             p[1] \o <<"_">> \o Replace(p[2], <<" ">>, <<"_">>), e.st))
            ELSE IF p[1] = <<"I", "E">> THEN e
            ELSE Written(e, p[1] \o <<"_">> \o p[2],
                         VidarCookies(cfgs, persona, p[1] \o <<"_">> \o p[2], e.st))
        Explorer(e) ==
            IF fam = "vidar" /\ \E i \in DOMAIN browser_profiles :
                                    browser_profiles[i][1] = <<"I", "E">>
            THEN Written(e, ie, VidarCookies(cfgs, persona, ie, e.st))
            ELSE e
        with_www(e) == Bind(e, "with_www", RandomAbove(e.st, 5, 10))
        variant(e, domain) ==
            IF e.with_www
            THEN Set(e, "final_domains",
                     Append(e.final_domains, <<"w", "w", "w", ".">> \o domain))
            ELSE e
        Domain(e, domain) ==
            IF ~StartsWith(domain, <<"w", "w", "w", ".">>)
            THEN variant(with_www(Set(e, "final_domains",
                                      Append(e.final_domains, domain))), domain)
            ELSE Set(e, "final_domains", Append(e.final_domains, domain))
        Listed(e) ==
            IF fam = "stealc"
            THEN Set(e, "cookie_list", SortedSet(Elements(e.all_cookie_domains)))
            ELSE LET final == ForEach(Domain, SortedSet(Elements(e.all_cookie_domains)),
                                      Set(e, "final_domains", << >>))
                 IN Set(final, "cookie_list", SortedSet(Elements(final.final_domains)))
        Result(e) == [raised |-> "", st |-> e.st,
                      v |-> [files |-> e.files, cookie_list |-> e.cookie_list]]
    IN Result(Listed(Explorer(ForEach(Profile, browser_profiles,
                  [st |-> st, files |-> << >>, all_cookie_domains |-> << >>]))))

\* str(n) for n >= 0
RECURSIVE str(_)
str(n) == IF n < 10 THEN <<Digits[n + 1]>> ELSE str(n \div 10) \o <<Digits[(n % 10) + 1]>>

(***************************************************************************)
(* RedLine: BrowserDataGenerator.get_browser_profiles and the per-profile  *)
(* files of generate_redline_log.  Browser and profile names are character *)
(* sequences.                                                              *)
(***************************************************************************)
\* the browser names of the personas, as spelled in the CSV
BrowserChars == [Chrome |-> Tag.Chrome, Edge |-> Tag.Edge]

GoogleChrome == <<"G", "o", "o", "g", "l", "e", "_", "[">> \o Tag.Chrome \o <<"]">>

OperaGX == <<"O", "p", "e", "r", "a", " ", "G", "X">>

\* [v, st], v the list of (browser, profile) pairs
get_browser_profiles(cfgs, persona, st) ==
    LET browser_mapping ==
            RedlineGet(cfgs, "browsers", <<K("browser_mapping")>>,
                D(("Chrome" :> S(GoogleChrome))
                  @@ ("Firefox" :> S(<<"M", "o", "z", "i", "l", "l", "a", "_", "[",
                                       "F", "i", "r", "e", "f", "o", "x", "]">>))
                  @@ ("Edge" :> S(<<"M", "i", "c", "r", "o", "s", "o", "f", "t", "_", "[">>
                                  \o Tag.Edge \o <<"]">>)))).d
        profile_numbers ==
            RedlineGet(cfgs, "browsers", <<K("chrome_profile_numbers")>>,
                       L(<<N(1), N(2), N(4), N(5)>>)).l
        \* browser_mapping.get(browser, browser), then `if browser_name`
        Name(browser) ==
            IF browser \in DOMAIN browser_mapping THEN browser_mapping[browser]
            ELSE S(BrowserChars[browser])
        Named(browser) ==
            browser \notin {"", "None"} /\ Name(browser) # None /\ Name(browser).s # << >>
        Added(e, browser_name, profile) ==
            Set(e, "browser_profiles", Append(e.browser_profiles, <<browser_name, profile>>))
        profiles_count(e) ==
            IF persona.primary_browser = "Chrome" /\ persona.social_media_user = "Heavy"
            THEN Bind(e, "profiles_count", RandInt(e.st, 2, 5))
            ELSE IF persona.primary_browser = "Chrome" /\ persona.business_access = "Yes"
            THEN Bind(e, "profiles_count", RandInt(e.st, 2, 3))
            ELSE Set(e, "profiles_count", 1)
        profile_num(e) == Bind(e, "profile_num", Choice(e.st, profile_numbers))
        Numbered(e) ==
            Added(e, Name(persona.primary_browser).s, Tag.Profile \o str(e.profile_num.n))
        Additional(e, i) == Numbered(profile_num(e))
        Profiles(e) ==
            ForEach(Additional, SubSeq(range(e.profiles_count), 2, e.profiles_count),
                    Added(e, Name(persona.primary_browser).s, Tag.Default))
        Primary(e) ==
            IF Named(persona.primary_browser) THEN Profiles(profiles_count(e)) ELSE e
        Secondary(e) ==
            IF /\ Named(persona.secondary_browser)
               /\ \A i \in DOMAIN e.browser_profiles :
                     e.browser_profiles[i]
                         # <<Name(persona.secondary_browser).s, Tag.Default>>
            THEN Added(e, Name(persona.secondary_browser).s, Tag.Default)
            ELSE e
        opera(e) == Bind(e, "opera", RandomAbove(e.st, 6, 10))
        Opera(e) == IF e.opera THEN Added(e, OperaGX, Tag.Default) ELSE e
        Gaming(e) == IF persona.gaming_user = "Heavy" THEN Opera(opera(e)) ELSE e
        AtLeastOne(e) ==
            IF e.browser_profiles = << >> THEN Added(e, GoogleChrome, Tag.Default) ELSE e
        Result(e) == [v |-> e.browser_profiles, st |-> e.st]
    IN Result(AtLeastOne(Gaming(Secondary(Primary(
           [st |-> st, browser_profiles |-> << >>])))))

\* generate_redline_log, the files written once per browser profile: the
\* Autofills, the Network cookies and the Fresh Cookies, each as the
\* directory and the file name of a _write_file call, in the order of the
\* calls; [raised, v, st], st the generator after get_browser_profiles
ProfileFiles(cfgs, persona, st) ==
    LET Base(p) == p[1] \o <<"_">> \o Replace(p[2], <<" ">>, <<"_">>)
        Files(browser_profiles, dir, end) ==
            [i \in DOMAIN browser_profiles |->
                [dir |-> dir, filename |-> Base(browser_profiles[i]) \o end]]
        txt == <<".", "t", "x", "t">>
        Written(r) ==
            [raised |-> "", st |-> r.st,
             v |-> [browser_profiles |-> r.v,
                    files |-> Files(r.v, "Autofills", txt)
                              \o Files(r.v, "Cookies",
                                       <<"_", "N", "e", "t", "w", "o", "r", "k">> \o txt)
                              \o Files(r.v, "Restore",
                                       <<" ", "F", "r", "e", "s", "h", " ">>
                                       \o <<"C", "o", "o", "k", "i", "e", "s">> \o txt)]]
    IN Written(get_browser_profiles(cfgs, persona, st))

(***************************************************************************)
(* Single calls.  Init draws one call: the operation, the script, the      *)
(* loaded configuration, the state of the generator and the arguments;     *)
(* the action of the operation makes the call and keeps what it returned   *)
(* or raised.                                                              *)
(***************************************************************************)
NotCalled == [raised |-> "", v |-> None, called |-> FALSE]

\* calls of HardwareGenerator.generate; the configuration directory holds
\* the hardware domain and, for Atomic, the domains of the serial number
HardwareCalls ==
    UNION { { [op |-> "hardware", family |-> fam,
               configs |-> IF fam = "atomic"
                           THEN ("hardware" :> domain) @@ AtomicConfig(2, 1, 3)
                           ELSE "hardware" :> domain,
               rng |-> st, persona |-> persona] :
                domain \in HardwareDomains(fam), st \in EntropyStates,
                persona \in Personas } :
            fam \in HardwareFamilies }

\* RedLine: SystemFilesGenerator.generate_installed_software: [v, st,
\* cfgs], v the header and the numbered [name, version] entries.  A piece
\* of software is the list [name, version]; sorting is by name.
generate_installed_software(cfgs, persona, st) ==
    LET default_cpu == S("Intel(R) Core(TM) i5-10400 CPU @ 2.90GHz")
        \* 'AMD' in cpu, on the processor names the model uses
        HasAMD(cpu) == cpu.s \in {"AMD Ryzen 5 5600X"}
        \* the order of str on the software names the model uses
        names == <<"AMD Chipset Software", "Discord", "Exodus",
                   "Intel Chipset Device Software", "Malwarebytes",
                   "Microsoft Edge", "Steam", "VLC">>
        Rank(software) == CHOOSE i \in DOMAIN names : names[i] = software.l[1].s
        Software(e, keys, default) == ListRef("redline", e.cfgs, "software", keys, default).l
        Counts(e, keys, lo, hi) ==
            RedlineGet(e.cfgs, "ranges", [i \in DOMAIN keys |-> K(keys[i])],
                       D(("min" :> N(lo)) @@ ("max" :> N(hi)))).d
        Extended(e, items) == InPlace(e, "selected_software", e.selected_software.l \o items)
        \* num = random.randint(min, max); extend(random.sample(pool, min(num, len(pool))))
        Sampled(e, pool, count) ==
            LET Added(r) == [Extended(e, r.v) EXCEPT !.st = r.st]
                Drawn(r) == Added(Sample(r.st, pool, Min(r.v, Len(pool))))
            IN IF pool = << >> THEN e
               ELSE Drawn(RandInt(e.st, count["min"].n, count["max"].n))
        cpu(e) ==
            LET hardware_config ==
                    RedlineGet(e.cfgs, "hardware",
                               <<K(persona.device_type), K(persona.income_level)>>, None)
                pool == IF "cpu" \in DOMAIN hardware_config.d
                        THEN hardware_config.d["cpu"].l ELSE <<default_cpu>>
            IN IF Falsy(hardware_config) THEN Set(e, "cpu", default_cpu)
               ELSE Bind(e, "cpu", Choice(e.st, pool))
        base(e) ==
            Extended(e, Software(e, <<"windows_base">>,
                <<L(<<S("Microsoft Visual C++ 2015-2022 Redistributable (x64)"),
                      S("14.34.31931")>>),
                  L(<<S("Microsoft Edge"), S("126.0.2592.87")>>)>>))
        chipset(e) ==
            Extended(e, Software(e, IF HasAMD(e.cpu) THEN <<"amd_chipset">>
                                    ELSE <<"intel_chipset">>, << >>))
        archetype(e) ==
            Sampled(e, Software(e, <<"archetype", persona.persona_archetype>>, << >>),
                    Counts(e, <<"archetype_software", persona.persona_archetype>>, 3, 6))
        crypto(e) ==
            IF persona.crypto_user # "None"
            THEN Sampled(e, Software(e, <<"crypto">>, << >>),
                         Counts(e, <<"crypto_software">>, 1, 4))
            ELSE e
        security(e) ==
            IF persona.tech_savviness \in {"High", "Medium"}
            THEN Sampled(e, Software(e, <<"security">>, << >>),
                         Counts(e, <<"security_software">>, 1, 3))
            ELSE e
        Category(e, category) ==
            Sampled(e, Software(e, <<category>>, << >>),
                    ("min" :> N(2)) @@ ("max" :> N(5)))
        categories(e) ==
            IF persona.download_habits = "Frequent"
            THEN ForEach(Category, <<"gaming", "creative", "development", "office">>, e)
            ELSE e
        \* the first piece of software of each name, in order
        Unique(e, software) ==
            IF \E i \in DOMAIN e.unique_software.l :
                   e.unique_software.l[i].l[1] = software.l[1]
            THEN e
            ELSE InPlace(e, "unique_software", Append(e.unique_software.l, software))
        unique(e) ==
            ForEach(Unique, e.selected_software.l,
                    e @@ [unique_software |-> [l |-> << >>, at |-> << >>]])
        \* unique_software.sort(key=lambda x: x[0]): the items by name
        Sorted(l) ==
            LET Before(i) == Cardinality({ j \in DOMAIN l : Rank(l[j]) < Rank(l[i]) })
            IN [k \in DOMAIN l |-> l[CHOOSE i \in DOMAIN l : Before(i) = k - 1]]
        sorted(e) == InPlace(e, "unique_software", Sorted(e.unique_software.l))
        Result(e) ==
            [raised |-> "",
             v |-> [header |-> RedlineGet(e.cfgs, "main", <<K("meta_header")>>,
                                          S("META_DATA\n")),
                    entries |-> [i \in DOMAIN e.unique_software.l |->
                                    [i |-> i, name |-> e.unique_software.l[i].l[1],
                                     version |-> e.unique_software.l[i].l[2]]]],
             st |-> e.st, cfgs |-> e.cfgs]
    IN Result(sorted(unique(categories(security(crypto(archetype(chipset(base(cpu(
           [cfgs |-> cfgs,
            st |-> Seed(st, get_persona_seed(persona.persona_id,
                            <<"i", "n", "s", "t", "a", "l", "l", "e", "d", "_",
                              "s", "o", "f", "t", "w", "a", "r", "e">>)),
            selected_software |-> [l |-> << >>, at |-> << >>]]))))))))))

\* RedLine configuration directories with a software domain; the hardware
\* domain holds the entry of Gaming_Rig / High with the pool cpu, or nothing
InstalledSoftwareConfigs ==
    LET Item(name, version) == L(<<S(name), S(version)>>)
    IN { ("software" :> D(
             ("windows_base" :> L(<<Item("Microsoft Edge", "126.0"),
                                    Item("VLC", "3.0.20")>>))
             @@ ("intel_chipset" :> L(<<Item("Intel Chipset Device Software", "10.1")>>))
             @@ ("amd_chipset" :> L(<<Item("AMD Chipset Software", "5.08")>>))
             @@ ("archetype" :> D("Gamer" :> L(<<Item("Steam", "2.10"),
                                                 Item("Discord", "1.0.9")>>)))
             @@ ("crypto" :> L(<<Item("Exodus", "23.5")>>))
             @@ ("security" :> L(<<Item("Malwarebytes", "4.6")>>))
             @@ ("gaming" :> L(<<Item("Steam", "2.11"), Item("Discord", "1.0.9"),
                                 Item("VLC", "3.0.18")>>))))
         @@ ("hardware" :> D(hardware)) :
           hardware \in { << >> } \cup
                        { "Gaming_Rig" :> D("High" :> D("cpu" :> L(cpu))) :
                              cpu \in { <<S("AMD Ryzen 5 5600X")>>,
                                        <<S("Intel Core i7-12700K"),
                                          S("AMD Ryzen 5 5600X")>> } } }

\* calls of generate_software_txt
SoftwareCalls ==
    { [op |-> "software", family |-> "lumma", configs |-> cfgs, rng |-> st,
       persona |-> persona] :
        cfgs \in SoftwareConfigs, st \in EntropyStates, persona \in Personas }

\* calls of generate_installed_software
InstalledSoftwareCalls ==
    { [op |-> "installed_software", family |-> "redline", configs |-> cfgs,
       rng |-> st,
       persona |-> persona @@ [tech_savviness |-> tech_savviness,
                               download_habits |-> download_habits]] :
        cfgs \in InstalledSoftwareConfigs, st \in EntropyStates,
        persona \in Personas, tech_savviness \in {"High", "Low"},
        download_habits \in {"Frequent", "Moderate"} }

\* constructions of StealCLogGenerator: the CSV file and the arguments
\* --exclude and --sample-size
LoadCalls ==
    { [op |-> "load", family |-> "stealc", configs |-> << >>, rng |-> Seeded(0),
       rows |-> rows, exclude_ids |-> exclude_ids, sample_size |-> sample_size] :
        rows \in Rosters, exclude_ids \in {{}, {1}},
        sample_size \in 0..(MaxRoster + 1) }

\* the password entries of a log, as generated: one or two entries
BruteCalls ==
    LET entry == [url : {<<"u">>}, login : {<< >>, <<"l">>},
                  password : {<< >>, <<"a">>, <<"a", "b">>, <<"a", " ">>}]
    IN { [op |-> "brute", family |-> fam,
          configs |-> IF fam = "lumma" THEN PasswordEntryConfig ELSE << >>,
          rng |-> Seeded(0), entries |-> entries] :
           fam \in {"atomic", "lumma"},
           entries \in { <<e>> : e \in entry } \cup { <<e, f>> : e \in entry, f \in entry } }

\* StealC configurations for the cookie files: the common sites, the cookie
\* value types, one to three cookies per profile
StealcCookieConfig(common_sites, value_types) ==
    ("websites" :> D(("common_sites" :> L(common_sites))
                     @@ ("crypto_sites" :> L(<<S(<<"c", ".", "i", "o">>)>>))))
    @@ ("ranges" :> D("cookie_count" :> Range(1, 3)))
    @@ ("browsers" :>
          D(("cookie_value_types" :> L(value_types))
            @@ ("site_specific_cookies" :>
                  D(<<"g", "o", "o", "g", "l", "e">> :> D("names" :> L(<<S("SID")>>))))))

\* Vidar configurations for the cookie files
VidarCookieConfig(common) ==
    ("sites" :> D(("common" :> L(common)) @@ ("gaming" :> L(<< >>))
                  @@ ("student" :> L(<<S(<<"s", ".", "e", "d", "u">>)>>))
                  @@ ("corporate" :> L(<< >>))
                  @@ ("crypto" :> L(<<S(<<"c", ".", "i", "o">>)>>))
                  @@ ("social_heavy" :> L(<<S(<<"f", ".", "c", "o">>)>>))))
    @@ ("cookie_names" :> D(("google" :> L(<<S("SID"), S("HSID")>>))
                            @@ ("facebook" :> L(<<S("c_user")>>))
                            @@ ("coursehero" :> L(<<S("ch")>>))
                            @@ ("default" :> L(<<S("session"), S("id")>>))))

\* the cookie statements of one log: a StealC log with one or two browser
\* profiles, a Vidar log with Internet Explorer among its profiles
CookieCalls ==
    LET google == <<"a", "c", "c", "o", "u", "n", "t", "s", ".",
                    "g", "o", "o", "g", "l", "e", ".", "c", "o", "m">>
        a == <<"a", ".", "i", "o">>
        b == <<".", "b", ".", "i", "o">>
        www == <<"w", "w", "w", ".", "d", ".", "i", "o">>
        chrome == <<"G", "o", "o", "g", "l", "e", " ">> \o Tag.Chrome
    IN { [op |-> "cookies", family |-> "stealc",
          configs |-> StealcCookieConfig(common_sites, value_types),
          rng |-> st, persona |-> persona, browser_profiles |-> browser_profiles] :
            common_sites \in {<<S(a)>>, <<S(a), S(b)>>, <<S(google), S(a)>>},
            value_types \in {<< >>, <<S("md5"), S("alphanumeric")>>},
            st \in EntropyStates, persona \in Personas,
            browser_profiles \in {<<<<Tag.Chrome, Tag.Default>>>>,
                                  <<<<Tag.Chrome, Tag.Default>>,
                                    <<Tag.Edge, Tag.Profile \o <<"1">>>>>>} }
       \cup
       { [op |-> "cookies", family |-> "vidar", configs |-> VidarCookieConfig(common),
          rng |-> st, persona |-> persona, browser_profiles |-> browser_profiles] :
            common \in {<<S(a)>>, <<S(www)>>, <<S(a), S(b)>>, <<S(a), S(www), S(google)>>},
            st \in EntropyStates, persona \in Personas,
            browser_profiles \in {<<<<<<"I", "E">>, Tag.Default>>>>,
                                  <<<<chrome, Tag.Default>>,
                                    <<<<"I", "E">>, Tag.Default>>>>} }

\* the draws made since the generator was last seeded, before
\* get_browser_profiles is called
MaxDrawsBefore == 7

\* get_browser_profiles follows SystemInfoGenerator.generate in the log:
\* the generator is as that call seeded it, some draws on.  The personas
\* with and without business access and gaming; the profile numbers as
\* built in, or a list of one or two numbers.
ProfileCalls ==
    { [op |-> "profiles", family |-> "redline", configs |-> cfgs,
       rng |-> [Seeded(get_persona_seed(persona.persona_id, Tag.system))
                   EXCEPT !.pos = pos],
       persona |-> [persona EXCEPT !.business_access = business_access]
                   @@ [gaming_user |-> gaming_user]] :
        cfgs \in {<< >>, "browsers" :> D("chrome_profile_numbers" :> L(<<N(1)>>)),
                  "browsers" :> D("chrome_profile_numbers" :> L(<<N(1), N(2)>>))},
        pos \in 0..MaxDrawsBefore, persona \in Personas,
        business_access \in {"No", "Yes"}, gaming_user \in {"None", "Heavy"} }

InitCalls ==
    /\ query \in HardwareCalls \cup SoftwareCalls \cup InstalledSoftwareCalls
                \cup LoadCalls \cup BruteCalls \cup CookieCalls
                \cup ProfileCalls
    /\ family = query.family
    /\ configs = query.configs
    /\ rng = query.rng
    /\ answer = NotCalled
    /\ last = None
    /\ ref = None

\* bookkeeping of a call: r is its [raised, v, st] and, when the call can
\* reach lists of the configuration, the configuration cfgs it leaves
Returned(r) ==
    /\ ~answer.called
    /\ answer' = [raised |-> r.raised, v |-> r.v, called |-> TRUE]
    /\ rng' = r.st
    /\ configs' = IF "cfgs" \in DOMAIN r THEN r.cfgs ELSE configs
    /\ UNCHANGED <<family, last, ref, query>>

\* hardware = self.hardware_generator.generate(persona)
HardwareCall ==
    /\ query.op = "hardware"
    /\ \E r \in {HardwareGenerate(family, configs, query.persona, rng)} : Returned(r)

\* software = self.system_files_generator.generate_software_txt(persona)
SoftwareCall ==
    /\ query.op = "software"
    /\ \E r \in {generate_software_txt(configs, query.persona, rng)} : Returned(r)

\* self.system_files_generator.generate_installed_software(persona)
InstalledSoftwareCall ==
    /\ query.op = "installed_software"
    /\ \E r \in {generate_installed_software(configs, query.persona, rng)} : Returned(r)

\* self.personas = self._load_windows_personas(csv_file, exclude_ids,
\* sample_size)
LoadCall ==
    /\ query.op = "load"
    /\ Returned([raised |-> "", st |-> rng,
                 v |-> load_windows_personas(query.rows, query.exclude_ids,
                                             query.sample_size)])

\* generate_atomic_log and generate_lumma_log: the password file and
\* Brute.txt
BruteCall ==
    /\ query.op = "brute"
    /\ Returned([raised |-> "", st |-> rng,
                 v |-> BruteFiles(family, configs, query.entries)])

CookieCall ==
    /\ query.op = "cookies"
    /\ \E r \in {CookieFiles(family, configs, query.persona, query.browser_profiles,
                             rng)} : Returned(r)

ProfilesCall ==
    /\ query.op = "profiles"
    /\ \E r \in {ProfileFiles(configs, query.persona, rng)} : Returned(r)

NextCalls ==
    \/ HardwareCall
    \/ SoftwareCall
    \/ InstalledSoftwareCall
    \/ LoadCall
    \/ BruteCall
    \/ CookieCall
    \/ ProfilesCall

SpecCalls == InitCalls /\ [][NextCalls]_vars

(***************************************************************************)
(* Properties of single calls (specification SpecCalls).                   *)
(***************************************************************************)
\* the call drawn by Init was made and was a call of operation op
Called(op) == query.op = op /\ answer.called

\* the hardware domain has an entry for the persona's device type and
\* income level
HasOwnEntry ==
    /\ query.persona.device_type \in DOMAIN configs["hardware"].d
    /\ query.persona.income_level
           \in DOMAIN configs["hardware"].d[query.persona.device_type].d

\* the fields of the hardware record of the script
HardwareRecordFields ==
    { HardwareItems(family)[i].field : i \in DOMAIN HardwareItems(family) }
    \cup (IF family = "atomic" THEN {"serial_num", "hardware_uuid"} ELSE {})

\* C21: when the hardware domain has no entry for the persona's device type
\* and income level, HardwareGenerator.generate raises nothing and returns
\* a record with every field of the script's hardware record, whatever the
\* loaded hardware domain is.
C21_AbsentCombinationFallsBack ==
    (Called("hardware") /\ ~HasOwnEntry)
        => (answer.raised = "" /\ DOMAIN answer.v = HardwareRecordFields)

\* C22: for a persona with device type Gaming_Rig and income level High and
\* a hardware domain whose entry for them holds only the pools cpu ['X'],
\* gpu ['Y'] and ram ['32768'], generate raises nothing and the record has
\* cpu 'X', gpu 'Y' and ram '32768', from every state of the generator.
C22_SingleElementPoolsDeterministic ==
    (/\ Called("hardware")
     /\ family \in {"lumma", "redline"}
     /\ query.persona.device_type = "Gaming_Rig"
     /\ query.persona.income_level = "High"
     /\ HasOwnEntry
     /\ DOMAIN configs["hardware"].d["Gaming_Rig"].d["High"].d = {"cpu", "gpu", "ram"})
        => /\ answer.raised = ""
           /\ {"cpu", "gpu", "ram"} \subseteq DOMAIN answer.v
           /\ answer.v["cpu"] = S("X")
           /\ answer.v["gpu"] = S("Y")
           /\ answer.v["ram"] = S("32768")

\* C24: no generation operation changes a list or mapping held in the
\* loaded configuration: after generate_software_txt (Lumma) and after
\* generate_installed_software (RedLine) the configuration is the one that
\* was loaded.
C24_ConfigurationUnchanged ==
    (Called("software") \/ Called("installed_software")) => configs = query.configs

\* a software list longer than the base list was built and returned
C24_Witness ==
    /\ Called("software")
    /\ Len(answer.v) > Len(query.configs["software"].d["windows_base"].l)
    /\ configs = query.configs

\* C25: for every CSV file and every sample size of zero or more, the
\* number of personas that _load_windows_personas loads (the personas
\* StealCLogGenerator generates logs for) is at most the sample size.
C25_AtMostSampleSizePersonas ==
    Called("load") => Len(answer.v) <= query.sample_size

\* C26: Brute.txt holds the password of each generated entry whose
\* password is not empty, unchanged, one per line, in the order of the
\* entries.
C26_BruteListsPasswordsUnchanged ==
    Called("brute") =>
        LET kept == SelectSeq(query.entries, LAMBDA entry : entry.password # << >>)
        IN answer.v.brute = Join([i \in DOMAIN kept |-> kept[i].password], <<"\n">>)

\* the domain fields of the cookie lines written to the cookie files of the log
CookieLineDomains ==
    UNION { { answer.v.files[i].cookies[j].domain : j \in DOMAIN answer.v.files[i].cookies } :
              i \in DOMAIN answer.v.files }

\* C27: in a StealC or Vidar log, cookie_list.txt is sorted and free of
\* duplicates, and every domain it lists is the domain field of at least
\* one cookie line written to the cookie files of that log.
C27_CookieListMatchesCookieFiles ==
    Called("cookies") =>
        /\ \A i \in 1..(Len(answer.v.cookie_list) - 1) :
              StrLess(answer.v.cookie_list[i], answer.v.cookie_list[i + 1])
        /\ \A i \in DOMAIN answer.v.cookie_list :
              answer.v.cookie_list[i] \in CookieLineDomains

\* C30: RedLine get_browser_profiles never returns the same (browser,
\* profile) pair twice, so each per-profile file of the log (Autofills,
\* Cookies, Restore) is written exactly once.
C30_ProfilesDistinct ==
    Called("profiles") =>
        /\ \A i, j \in DOMAIN answer.v.browser_profiles :
              i # j => answer.v.browser_profiles[i] # answer.v.browser_profiles[j]
        /\ \A i, j \in DOMAIN answer.v.files :
              i # j => answer.v.files[i] # answer.v.files[j]

(***************************************************************************)
(* Atomic: PasswordGenerator.generate run for two personas at once.  Each  *)
(* thread has its own locals and works through the statements of generate *)
(* one call of module random at a time; the generator of module random is  *)
(* the one object of the process that both threads use.                    *)
(***************************************************************************)
Threads == {1, 2}

\* the locals of generate(persona) before its first statement
PasswordLocals(persona) ==
    [persona |-> persona, pc |-> "seed", num_passwords |-> 0, site |-> None,
     login_type |-> None, number |-> 0, entries |-> << >>]

\* the next call of module random in generate(persona), made on the
\* generator state st by the thread whose locals are e: [e, st] after it.
\* _generate_login draws the login type and, for a user name, a number;
\* _select_password draws unless the persona reuses passwords.
PasswordStatement(cfgs, e, st) ==
    LET persona == e.persona
        Numbers(weights) == [i \in DOMAIN weights |-> weights[i].n]
        After(pc, name, r) == [e |-> [e EXCEPT !.pc = pc, ![name] = r.v], st |-> r.st]
        Entered(r) ==
            [e |-> [e EXCEPT !.pc = IF Len(e.entries) + 1 = e.num_passwords
                                     THEN "done" ELSE "site",
                             !.entries = Append(@, [url |-> e.site,
                                                    login_type |-> e.login_type,
                                                    number |-> e.number,
                                                    password |-> r.v])],
             st |-> r.st]
    IN CASE e.pc = "seed" ->
              [e |-> [e EXCEPT !.pc = "num_passwords"],
               st |-> Seed(st, get_persona_seed(persona.persona_id, Tag.passwords))]
         [] e.pc = "num_passwords" ->
              After("site", "num_passwords",
                    RandInt(st,
                            AtomicGet(cfgs, "main",
                                <<K("generator_settings"), K("min_passwords")>>, None).n,
                            AtomicGet(cfgs, "main",
                                <<K("generator_settings"), K("max_passwords")>>, None).n))
         [] e.pc = "site" ->
              After("login_type", "site",
                    Choice(st,
                        AtomicGet(cfgs, "websites",
                            <<K("persona_websites"), K(persona.persona_archetype)>>,
                            L(<< >>)).l
                        \o AtomicGet(cfgs, "websites", <<K("common_websites")>>,
                                     L(<< >>)).l))
         [] e.pc = "login_type" ->
              LET Typed(r) == [e |-> [e EXCEPT !.pc = IF r.v = S("username")
                                                      THEN "number" ELSE "password",
                                               !.login_type = r.v, !.number = 0],
                               st |-> r.st]
              IN Typed(WeightedChoice(st,
                     AtomicGet(cfgs, "main", <<K("login_types")>>,
                               L(<<S("empty"), S("email"), S("username")>>)).l,
                     Numbers(AtomicGet(cfgs, "main", <<K("login_weights")>>,
                                       L(<<N(1), N(1), N(1)>>)).l)))
         [] e.pc = "number" -> After("password", "number", RandInt(st, 100, 999))
         [] OTHER ->
              Entered(select_password(persona.password_habits,
                          AtomicGet(cfgs, "passwords", <<K(persona.password_habits)>>,
                                    L(<<S("DefaultPass123!")>>)).l,
                          st))

\* generate(persona) run by one thread with no other thread running: the
\* statements from locals e to the return
RECURSIVE PasswordsAlone(_, _, _)
PasswordsAlone(cfgs, e, st) ==
    IF e.pc = "done" THEN e.entries
    ELSE LET Next_(r) == PasswordsAlone(cfgs, r.e, r.st)
         IN Next_(PasswordStatement(cfgs, e, st))

InitThreads ==
    /\ family = "atomic"
    /\ configs = AtomicConfig(2, 1, 3)
    /\ rng \in EntropyStates
    /\ query \in { personas \in [Threads -> Personas] : personas[1] # personas[2] }
    /\ answer = [t \in Threads |-> PasswordLocals(query[t])]
    /\ last = None
    /\ ref = None

\* thread t makes its next call of module random
Statement(t, seeding) ==
    /\ answer[t].pc # "done"
    /\ seeding = (answer[t].pc = "seed")
    /\ \E r \in {PasswordStatement(configs, answer[t], rng)} :
           /\ answer' = [answer EXCEPT ![t] = r.e]
           /\ rng' = r.st
    /\ UNCHANGED <<family, configs, last, ref, query>>

\* random.seed(self.get_persona_seed(persona.persona_id, 'passwords'))
SeedStep == \E t \in Threads : Statement(t, TRUE)

\* random.randint, random.choice or random.choices
DrawStep == \E t \in Threads : Statement(t, FALSE)

NextThreads == SeedStep \/ DrawStep

SpecThreads == InitThreads /\ [][NextThreads]_vars

(***************************************************************************)
(* Properties of two generations at once (specification SpecThreads).      *)
(***************************************************************************)
\* C23: when the generations of two personas run at once, in whatever order
\* their seed and draw steps are taken, each persona's password entries
\* are those that its generation gives when it runs with no other.
C23_ConcurrentPersonasAsSequential ==
    \A t \in Threads :
        answer[t].pc = "done"
            => answer[t].entries = PasswordsAlone(configs, PasswordLocals(query[t]), rng)

(***************************************************************************)
(* Lumma: BrowserDataGenerator._generate_phone_number, one step per pass   *)
(* of its while loop.  The locals of the call are in answer: pc is "call"  *)
(* before the call, "while" at the loop test, "returned" or "raised" at    *)
(* the end.                                                                *)
(***************************************************************************)
\* the number of pieces a configured phone format is made of
MaxPieces == 2

\* s.find(c, start) for a character c, positions counted from 1: the first
\* position from start on that holds c, 0 (Python's -1) if there is none
Find(s, c, start) ==
    IF \E i \in start..Len(s) : s[i] = c
    THEN CHOOSE i \in start..Len(s) : s[i] = c /\ \A j \in start..(i - 1) : s[j] # c
    ELSE 0

\* int(s) is defined (no ValueError) for the strings that occur in a format:
\* digits, letters, braces
IsInt(s) == s # << >> /\ \A i \in DOMAIN s : \E d \in DOMAIN Digits : Digits[d] = s[i]

\* int(s) for a digit string
RECURSIVE int(_)
int(s) ==
    IF s = << >> THEN 0
    ELSE 10 * int(SubSeq(s, 1, Len(s) - 1))
         + (CHOOSE d \in 0..9 : Digits[d + 1] = s[Len(s)])

\* the number of '{' in s
Braces(s) == Cardinality({ i \in DOMAIN s : s[i] = "{" })

\* Body applied to the value of v, which is computed once
With(Body(_), v) == CHOOSE r \in { Body(x) : x \in {v} } : TRUE

\* one pass of `while '{' in phone`, from the loop test on; assigned: the
\* slice assignment `phone = phone[:start] + value + phone[end+1:]` is made.
\* Each step is given the locals assigned so far.
WhilePass(e, assigned) ==
    LET Ended(pc, raised) == [e EXCEPT !.pc = pc, !.raised = raised]
        Spliced(x) ==
            [e EXCEPT !.st = x.value.st,
                      !.phone = IF assigned
                                THEN SubSeq(@, 1, x.start - 1) \o str(x.value.v)
                                     \o SubSeq(@, x.end + 1, Len(@))
                                ELSE @]
        Expanded(x) ==
            IF x.min_val > x.max_val THEN Ended("raised", ValueError)
            ELSE With(Spliced, [start |-> x.start, end |-> x.end,
                                value |-> RandInt(e.st, x.min_val, x.max_val)])
        Ranged(x) ==
            IF Len(x.parts) # 2 \/ \E i \in DOMAIN x.parts : ~IsInt(x.parts[i])
            THEN Ended("raised", ValueError)
            ELSE With(Expanded, [start |-> x.start, end |-> x.end,
                                 min_val |-> int(x.parts[1]), max_val |-> int(x.parts[2])])
        Closed(x) ==
            IF \A i \in DOMAIN x.range_str : x.range_str[i] # "-"
            THEN Ended("returned", "")
            ELSE With(Ranged, [start |-> x.start, end |-> x.end,
                               parts |-> Split(x.range_str, "-")])
        Opened(x) ==
            IF x.end = 0 THEN Ended("returned", "")
            ELSE With(Closed, [start |-> x.start, end |-> x.end,
                               range_str |-> SubSeq(e.phone, x.start + 1, x.end - 1)])
        Found(start) ==
            IF start = 0 THEN Ended("returned", "")
            ELSE With(Opened, [start |-> start, end |-> Find(e.phone, "}", start)])
    IN With(Found, Find(e.phone, "{", 1))

\* the pass without the assignment to phone
generate_phone_number_unassigned(e) == WhilePass(e, FALSE)

\* the pass as the code makes it
generate_phone_number_pass(e) == WhilePass(e, TRUE)

\* _generate_phone_number up to the loop test, or to its return for a
\* country without a format
generate_phone_number_enter(cfgs, country, st) ==
    LET formats == PlainGet(cfgs, "network", <<K("phone_formats")>>, D(<< >>)).d
        drawn == RandInts(st, <<Range(1, 99), Range(100, 999), Range(100, 999),
                                Range(1000, 9999)>>)
    IN IF country \in DOMAIN formats
       THEN [pc |-> "while", raised |-> "", phone |-> formats[country].s, st |-> st]
       ELSE [pc |-> "returned", raised |-> "", st |-> drawn.st,
             phone |-> <<"+">> \o str(drawn.v[1]) \o <<" ">> \o str(drawn.v[2])
                       \o <<" ">> \o str(drawn.v[3]) \o <<" ">> \o str(drawn.v[4])]

\* the pieces of the phone formats: well-formed placeholders, one after
\* literal text, and malformed ones (bounds reversed, no dash, not closed,
\* not a number)
FormatPieces ==
    { <<"x", "{", "1", "-", "3", "}">>, <<"{", "8", "-", "1", "2", "}">>,
      <<"{", "3", "-", "1", "}">>, <<"{", "1", "3", "}">>, <<"{", "1", "-", "3">>,
      <<"{", "a", "-", "3", "}">> }

RECURSIVE Formats(_)
Formats(n) ==
    IF n = 0 THEN { << >> }
    ELSE Formats(n - 1) \cup { f \o p : f \in Formats(n - 1), p \in FormatPieces }

\* before the generator object is constructed
InitPhone ==
    /\ family = "lumma"
    /\ configs = << >>
    /\ rng \in EntropyStates
    /\ query = [op |-> "phone", country |-> ""]
    /\ answer = [pc |-> "load", raised |-> "", phone |-> << >>]
    /\ last = None
    /\ ref = None

\* the network domain is loaded, with a format for one country
PhoneLoad ==
    /\ answer.pc = "load"
    /\ \E format \in Formats(MaxPieces) :
          configs' = ("network" :> D("phone_formats" :> D("US" :> S(format))))
    /\ answer' = [answer EXCEPT !.pc = "call"]
    /\ UNCHANGED <<family, rng, last, ref, query>>

\* r: the locals and the generator state after a step
PhoneStep(r) ==
    /\ answer' = [pc |-> r.pc, raised |-> r.raised, phone |-> r.phone]
    /\ rng' = r.st
    /\ UNCHANGED <<family, configs, last, ref>>

PhoneEnter ==
    /\ answer.pc = "call"
    /\ \E country \in {"US", "DE"} :
          /\ query' = [query EXCEPT !.country = country]
          /\ \E r \in {generate_phone_number_enter(configs, country, rng)} : PhoneStep(r)

PhonePass ==
    /\ answer.pc = "while"
    /\ \E r \in {generate_phone_number_pass(answer @@ [st |-> rng])} : PhoneStep(r)
    /\ UNCHANGED query

NextPhone == PhoneLoad \/ PhoneEnter \/ PhonePass

\* the interpreter goes on with the call it is in
SpecPhone == InitPhone /\ [][NextPhone]_vars /\ WF_vars(NextPhone)

\* the call has ended
PhoneEnded == answer.pc \in {"returned", "raised"}

\* C28: the phone-format expansion loop terminates for every configured
\* format string: each pass of the while loop that goes on to another pass
\* has replaced one placeholder and left strictly fewer '{' in phone, and
\* the call ends after finitely many passes.
C28_PhoneLoopTerminates ==
    /\ [][(answer.pc = "while" /\ answer'.pc = "while")
             => Braces(answer'.phone) < Braces(answer.phone)]_vars
    /\ <>PhoneEnded

\* a format with two placeholders has been expanded in two passes
C28_Witness ==
    /\ answer.pc = "returned"
    /\ query.country = "US"
    /\ Braces(configs["network"].d["phone_formats"].d["US"].s) = 2
    /\ Braces(answer.phone) = 0

(***************************************************************************)
(* get_persona_seed of the five scripts as a function of its two           *)
(* arguments: the seed string, then its hash.  The state keeps the last    *)
(* two calls made.                                                         *)
(***************************************************************************)
\* a call that leaves the suffix out of the seed string
seed_string_without_suffix(fam, persona_id, suffix) == persona_id

\* seed_string = f"{persona_id}_{suffix}"; Vidar: f"{persona_id}{suffix}"
seed_string(fam, persona_id, suffix) ==
    IF fam = "vidar" THEN persona_id \o suffix ELSE persona_id \o <<"_">> \o suffix

\* persona ids and suffixes, with and without the separator in them
SeedPersonaIds == { <<"p">>, <<"p", "_", "a">>, <<"p", "a">> }

SeedSuffixes == { << >>, <<"c">>, <<"a", "_", "c">>, <<"a", "c">> }

NoSeedCall ==
    [persona_id |-> << >>, suffix |-> << >>, seed_string |-> << >>, seed |-> 0,
     called |-> FALSE]

InitSeeds ==
    /\ family \in Families
    /\ configs = << >>
    /\ rng = Seeded(0)
    /\ query = [op |-> "seed"]
    /\ last = NoSeedCall
    /\ answer = NoSeedCall
    /\ ref = None

GetPersonaSeed ==
    /\ \E persona_id \in SeedPersonaIds, suffix \in SeedSuffixes :
          answer' = [persona_id |-> persona_id, suffix |-> suffix,
                     seed_string |-> seed_string(family, persona_id, suffix),
                     seed |-> Md5Prefix(seed_string(family, persona_id, suffix)),
                     called |-> TRUE]
    /\ last' = answer
    /\ UNCHANGED <<family, configs, rng, ref, query>>

NextSeeds == GetPersonaSeed

SpecSeeds == InitSeeds /\ [][NextSeeds]_vars

\* two calls have been made
TwoSeedCalls == last.called /\ answer.called

\* C29 as stated: two calls with different (persona_id, purpose) pairs never
\* give the same seed string, in any of the five scripts.
C29_SeedStringInjective ==
    (TwoSeedCalls /\ <<last.persona_id, last.suffix>> # <<answer.persona_id, answer.suffix>>)
        => last.seed_string # answer.seed_string

\* C29 amended: two calls that differ in the persona id only, or in the
\* purpose only, never give the same seed string, in any of the five scripts.
C29_SeedStringInjectiveInEachInput ==
    (/\ TwoSeedCalls
     /\ \/ last.persona_id = answer.persona_id /\ last.suffix # answer.suffix
        \/ last.persona_id # answer.persona_id /\ last.suffix = answer.suffix)
        => last.seed_string # answer.seed_string

\* Vidar has derived the seeds of two purposes of one persona
C29_Witness ==
    /\ TwoSeedCalls
    /\ family = "vidar"
    /\ last.persona_id = answer.persona_id
    /\ last.suffix # answer.suffix
    /\ last.seed_string # answer.seed_string

====
